---------------------------- MODULE Spec2Model ----------------------------
(***************************************************************************)
(* Scene-graph core of Ranger-Go-GG: the affine-transform algebra, the     *)
(* transform pool, the render context (Save / Transform / Restore /        *)
(* DrawPolygon) and the node hierarchy (BaseNode, GroupNode,               *)
(* RectangleNode) with its lazily cached local transform.                  *)
(*                                                                         *)
(* Numbers.  The program computes in float64.  The model computes in the   *)
(* integers, which float64 represents exactly in the ranges used here.     *)
(* Angles are carried as a whole number of quarter turns (q stands for     *)
(* q * Pi/2 radians) with the exact values Cos, Sin in {-1, 0, 1}.         *)
(* Vertex lists and the points handed to the drawing surface are carried   *)
(* in halves (twice their value), so that the +-0.5 corners of a centered  *)
(* rectangle are integers; positions, scales and transform coefficients    *)
(* are in program units.                                                   *)
(***************************************************************************)
EXTENDS Integers, Sequences, FiniteSets, TLC

VARIABLES
    node,          \* node id -> BaseNode fields (+ GroupNode.nodes / RectangleNode.vertices)
    context,       \* RenderContext.context: the current composed transform
    contextState,  \* RenderContext.contextState: stack of saved pool instances
    AffinePool,    \* engine.AffinePool: sequence of free pool instances
    at,            \* pool instance -> its six coefficients
    dcDepth,       \* depth of the drawing surface's own Push/Pop stack
    tPoints,       \* RenderContext.tPoints: the scratch vertex buffer
    dc,            \* polygons filled on the drawing surface in the latest walk
    calls,         \* call stack of the Update / Render walk in progress
    updated,       \* nodes whose Update ran in the latest walk, in order
    visited,       \* nodes whose Render passed the visibility test in the latest walk, in order
    panic,         \* "none", or the run-time panic that stopped the program
    frames,        \* number of walks started so far
    engine,        \* Engine.running and the position of Engine.Run, with observers
    ps,            \* a ParticleSystem: its particles, and what its latest call passed on
    sets,          \* number of setter and Add calls made so far
    run,           \* observer: the current run of direct Save calls followed by Restore calls
    entry,         \* observer: context, stack and pool when the current Render began
    VectorsPool,   \* engine.VectorsPool: sequence of free pooled vectors
    ret,           \* what the latest direct call of Find or of a pool's Pop returned
    alg            \* transforms A, B, C of a client and the results of its latest computation

vars == <<node, context, contextState, AffinePool, at, dcDepth, tPoints, dc,
          calls, updated, visited, panic, frames, engine, ps, sets, run, entry,
          VectorsPool, ret, alg>>

\* State only direct calls of the queries, the pools and the algebra touch
callVars == <<VectorsPool, ret, alg>>

ctxVars == <<context, contextState, AffinePool, at, dcDepth>>

-----------------------------------------------------------------------------
(* Bounds of the model *)

\* Instances put in the transform pool (the program allocates 100).
AffinePoolCount == 4

\* Length of the scratch vertex buffer (the program allocates 100).
ScratchCount == 4

\* Node ids available to the constructors, the root included.
MaxNodes == 4

\* Setter calls made on the nodes of a chain of containers.
MaxSets == 3

\* Constructor and setter calls made to build a tree.
MaxOps == 4

\* Update / Render walks the frame driver starts.
MaxFrames == 4

\* Calls a client makes directly on the context.
MaxCalls == 8

\* Largest scale component SetScaleUniform is let to reach.
MaxScale == 2

\* Vectors in engine.VectorsPool (the program allocates 100)
VectorPoolCount == 2

\* Calls a client makes on the context when it draws polygons itself
MaxDraws == 3

\* Size of the coefficients of the transforms a client multiplies and inverts
MaxCoef == 1

\* Deepest recursion of a walk before the run-time's stack limit ends the
\* program (the Go run-time allows a stack of 1 GB); above MaxNodes, so that
\* only a walk that re-enters a node reaches it
MaxDepth == 6

\* Number of particles of the system (200 in the example)
ParticleCount == 2

\* Largest dt, in ticks, an Update is called with
MaxDt == 2

\* Largest scalar argument (offset, factor, coordinate) the client of SpecOps passes
MaxArg == 2

-----------------------------------------------------------------------------
(* AffineTransform *)

\* math.Cos at q quarter turns
Cos(q) == CASE q % 4 = 0 -> 1 [] q % 4 = 1 -> 0 [] q % 4 = 2 -> -1 [] OTHER -> 0

\* math.Sin at q quarter turns
Sin(q) == CASE q % 4 = 0 -> 0 [] q % 4 = 1 -> 1 [] q % 4 = 2 -> 0 [] OTHER -> -1

Set(a, b, c, d, tx, ty) == [a |-> a, b |-> b, c |-> c, d |-> d, tx |-> tx, ty |-> ty]

ToIdentity == Set(1, 0, 0, 1, 0, 0)

NewAffineTransform == ToIdentity

\* t.SetWithAT(s): the value t holds afterwards
SetWithAT(s) == Set(s.a, s.b, s.c, s.d, s.tx, s.ty)

SetToTranslate(tx, ty) == Set(1, 0, 0, 1, tx, ty)

SetToScale(sx, sy) == Set(sx, 0, 0, sy, 0, 0)

\* Faulty variant: the signs of the two sines change places
SetToRotate_ccw(q) == Set(Cos(q), Sin(q), -Sin(q), Cos(q), 0, 0)

SetToRotate(q) == Set(Cos(q), -Sin(q), Sin(q), Cos(q), 0, 0)

\* Faulty variant: the offset is added as it is, not through the linear part
Translate_shift(t, x, y) ==
    [t EXCEPT !.tx = t.tx + x,
              !.ty = t.ty + y]

\* t.Translate(x, y): the value t holds afterwards
Translate(t, x, y) ==
    [t EXCEPT !.tx = t.tx + (t.a * x) + (t.c * y),
              !.ty = t.ty + (t.b * x) + (t.d * y)]

\* t.Scale(sx, sy)
Scale(t, sx, sy) ==
    [t EXCEPT !.a = t.a * sx, !.b = t.b * sx, !.c = t.c * sy, !.d = t.d * sy]

\* t.Rotate(angle)
Rotate(t, q) ==
    [t EXCEPT !.a = t.a * Cos(q) + t.c * Sin(q),
              !.b = t.b * Cos(q) + t.d * Sin(q),
              !.c = t.c * Cos(q) - t.a * Sin(q),
              !.d = t.d * Cos(q) - t.b * Sin(q)]

\* AffineTransformTranslate(t, out, tx, ty): the value out holds afterwards
AffineTransformTranslate(t, tx, ty) ==
    Set(t.a,
        t.b,
        t.c,
        t.d,
        t.tx + t.a * tx + t.c * ty,
        t.ty + t.b * tx + t.d * ty)

\* AffineTransformScale(t, out, sx, sy): the value out holds afterwards
AffineTransformScale(t, sx, sy) ==
    Set(t.a * sx,
        t.b * sx,
        t.c * sy,
        t.d * sy,
        t.tx,
        t.ty)

\* AffineTransformRotate(t, out, anAngle): the value out holds afterwards
AffineTransformRotate(t, q) ==
    Set(t.a * Cos(q) + t.c * Sin(q),
        t.b * Cos(q) + t.d * Sin(q),
        t.c * Cos(q) - t.a * Sin(q),
        t.d * Cos(q) - t.b * Sin(q),
        t.tx,
        t.ty)

\* AffineTransformMultiplyTo(tA, tB): the value tB holds afterwards
AffineTransformMultiplyTo_reversed(tA, tB) ==
    Set(tB.a * tA.a + tB.b * tA.c,
        tB.a * tA.b + tB.b * tA.d,
        tB.c * tA.a + tB.d * tA.c,
        tB.c * tA.b + tB.d * tA.d,
        tB.tx * tA.a + tB.ty * tA.c + tA.tx,
        tB.tx * tA.b + tB.ty * tA.d + tA.ty)

AffineTransformMultiplyTo_lost(tA, tB) ==
    Set(tA.a * tB.a + tA.b * tB.c,
        tA.a * tB.b + tA.b * tB.d,
        tA.c * tB.a + tA.d * tB.c,
        tA.c * tB.b + tA.d * tB.d,
        tA.tx * tB.a + tA.ty * tB.c,
        tA.tx * tB.b + tA.ty * tB.d)

AffineTransformMultiplyTo(tA, tB) ==
    Set(tA.a * tB.a + tA.b * tB.c,
        tA.a * tB.b + tA.b * tB.d,
        tA.c * tB.a + tA.d * tB.c,
        tA.c * tB.b + tA.d * tB.d,
        tA.tx * tB.a + tA.ty * tB.c + tB.tx,
        tA.tx * tB.b + tA.ty * tB.d + tB.ty)

\* Faulty variant: the operands change places
Multiply_reversed(t1, t2) ==
    Set(t2.a * t1.a + t2.b * t1.c,
        t2.a * t1.b + t2.b * t1.d,
        t2.c * t1.a + t2.d * t1.c,
        t2.c * t1.b + t2.d * t1.d,
        t2.tx * t1.a + t2.ty * t1.c + t1.tx,
        t2.tx * t1.b + t2.ty * t1.d + t1.ty)

\* at.Multiply(t1, t2): the value at holds afterwards, at being neither t1 nor t2
Multiply(t1, t2) ==
    Set(t1.a * t2.a + t1.b * t2.c,
        t1.a * t2.b + t1.b * t2.d,
        t1.c * t2.a + t1.d * t2.c,
        t1.c * t2.b + t1.d * t2.d,
        t1.tx * t2.a + t1.ty * t2.c + t2.tx,
        t1.tx * t2.b + t1.ty * t2.d + t2.ty)

\* Faulty variant: t1.c where t1.b belongs in the first coefficient
AffineTransformMultiply_typo(t1, t2) ==
    Set(t1.a * t2.a + t1.c * t2.c,
        t1.a * t2.b + t1.b * t2.d,
        t1.c * t2.a + t1.d * t2.c,
        t1.c * t2.b + t1.d * t2.d,
        t1.tx * t2.a + t1.ty * t2.c + t2.tx,
        t1.tx * t2.b + t1.ty * t2.d + t2.ty)

\* AffineTransformMultiply(t1, t2, out): the value out holds afterwards
AffineTransformMultiply(t1, t2) ==
    Set(t1.a * t2.a + t1.b * t2.c,
        t1.a * t2.b + t1.b * t2.d,
        t1.c * t2.a + t1.d * t2.c,
        t1.c * t2.b + t1.d * t2.d,
        t1.tx * t2.a + t1.ty * t2.c + t2.tx,
        t1.tx * t2.b + t1.ty * t2.d + t2.ty)

\* a*d - b*c
Determinant(t) == t.a * t.d - t.b * t.c

\* 1.0 / x where the quotient is an integer: x = 1 or x = -1
Reciprocal(x) == CHOOSE r \in {-1, 1} : r * x = 1

\* Faulty variant: a wrong sign in the translation
Invert_sign(t) ==
    LET determinant == Reciprocal(Determinant(t)) IN
    Set(determinant * t.d,
        (-determinant) * t.b,
        (-determinant) * t.c,
        determinant * t.a,
        determinant * (t.c * t.ty + t.d * t.tx),
        determinant * (t.b * t.tx - t.a * t.ty))

\* at.Invert(): the value at holds afterwards
Invert(t) ==
    LET determinant == Reciprocal(Determinant(t)) IN
    Set(determinant * t.d,
        (-determinant) * t.b,
        (-determinant) * t.c,
        determinant * t.a,
        determinant * (t.c * t.ty - t.d * t.tx),
        determinant * (t.b * t.tx - t.a * t.ty))

\* AffineTransformInvert(t, out): the value out holds afterwards
AffineTransformInvert(t) ==
    LET determinant == Reciprocal(Determinant(t)) IN
    Set(determinant * t.d,
        (-determinant) * t.b,
        (-determinant) * t.c,
        determinant * t.a,
        determinant * (t.c * t.ty - t.d * t.tx),
        determinant * (t.b * t.tx - t.a * t.ty))

\* t.ApplyTo(point, out): the value out holds afterwards (program units)
ApplyTo(t, p) ==
    <<(t.a * p[1]) + (t.c * p[2]) + t.tx, (t.b * p[1]) + (t.d * p[2]) + t.ty>>

\* t.ApplyToVector(point, out): the value out holds afterwards (program units)
ApplyToVector(t, p) ==
    <<(t.a * p[1]) + (t.c * p[2]), (t.b * p[1]) + (t.d * p[2])>>

\* A point in program units, in halves
Halves(p) == <<2 * p[1], 2 * p[2]>>

\* t.ApplyTo on a point given in halves, the result in halves:
\* 2 * (a*x + c*y + tx) = a*(2x) + c*(2y) + 2*tx
ApplyToHalves(t, h) ==
    <<(t.a * h[1]) + (t.c * h[2]) + 2 * t.tx, (t.b * h[1]) + (t.d * h[2]) + 2 * t.ty>>

-----------------------------------------------------------------------------
(* Pools and the context's stack *)

Instances == 1 .. AffinePoolCount

\* NewAffineTransformPool(count): instances 1..count, pushed in order
NewAffineTransformPool(count) == [i \in 1 .. count |-> i]

\* AffineTransformPool.Push
PoolPush(q, n) == Append(q, n)

\* AffineTransformPool.Pop: n = (*q)[0]; *q = (*q)[1:]
PoolPopped(q) == q[1]

PoolRest(q) == SubSeq(q, 2, Len(q))

IsEmpty(q) == Len(q) = 0

\* NewVectorPool(count): vectors 1..count, pushed in order
NewVectorPool(count) == [i \in 1 .. count |-> i]

\* (*q)[0] in Pop: the index is out of range when the pool holds nothing
OutOfRange(q) == Len(q) = 0

\* Nothing has been returned by a direct call yet
NoReturn == [call |-> "none"]

\* Stack.Push / Stack.Pop of the context's stack of saved transforms
StackPush(s, x) == Append(s, x)

StackTop(s) == s[Len(s)]

StackPop(s) == SubSeq(s, 1, Len(s) - 1)

-----------------------------------------------------------------------------
(* RenderContext *)

\* The value Save writes into the popped instance
SaveCopy_none(t) == t

SaveCopy(t) == SetWithAT(context)

\* Faulty variant: an exhausted pool hands out a nil placeholder (0), which
\* Save pushes
Save_placeholder ==
    /\ dcDepth' = dcDepth + 1
    /\ contextState' = StackPush(contextState, IF Len(AffinePool) = 0 THEN 0 ELSE PoolPopped(AffinePool))
    /\ AffinePool' = PoolRest(AffinePool)
    /\ at' = IF Len(AffinePool) = 0 THEN at
              ELSE [at EXCEPT ![PoolPopped(AffinePool)] = SetWithAT(context)]
    /\ UNCHANGED <<context, panic>>

\* RenderContext.Save.  An empty pool makes AffinePool.Pop index out of range.
Save ==
    IF OutOfRange(AffinePool)
    THEN /\ panic' = "pool: index out of range"
         /\ dcDepth' = dcDepth + 1
         /\ UNCHANGED <<context, contextState, AffinePool, at>>
    ELSE LET t == PoolPopped(AffinePool) IN
         /\ dcDepth' = dcDepth + 1
         /\ AffinePool' = PoolRest(AffinePool)
         /\ at' = [at EXCEPT ![t] = SaveCopy(at[t])]
         /\ contextState' = StackPush(contextState, t)
         /\ UNCHANGED <<context, panic>>

\* RenderContext.Transform(t)
Transform(t) ==
    /\ context' = AffineTransformMultiplyTo(t, context)
    /\ UNCHANGED <<contextState, AffinePool, at, dcDepth, panic>>

\* The value Restore writes into the current transform
RestoreCopy_none(t) == context

RestoreCopy(t) == SetWithAT(at[t])

\* RenderContext.Restore.  Popping the empty stack stops the program.
Restore ==
    IF Len(contextState) = 0
    THEN /\ panic' = "stack: pop of empty stack"
         /\ UNCHANGED <<context, contextState, AffinePool, at, dcDepth>>
    ELSE LET t == StackTop(contextState) IN
         /\ contextState' = StackPop(contextState)
         /\ context' = RestoreCopy(t)
         /\ AffinePool' = PoolPush(AffinePool, t)
         /\ dcDepth' = dcDepth - 1
         /\ UNCHANGED <<at, panic>>

-----------------------------------------------------------------------------
(* Vector3 *)

NewVector3 == <<0, 0>>

\* v.Set2Components(x, y)
Set2Components(x, y) == <<x, y>>

\* v.ScaleBy(s)
ScaleBy(v, s) == <<v[1] * s, v[2] * s>>

\* v.Add(w)
VectorAdd(v, w) == <<v[1] + w[1], v[2] + w[2]>>

-----------------------------------------------------------------------------
(* BaseNode, GroupNode, RectangleNode *)

Nil == 0

Root == 1

White == <<255, 255, 255, 255>>

Allocated == 1 .. Len(node)

Groups == {n \in Allocated : node[n].kind = "group"}

\* BaseNode.Initialize, with the fields the constructors add
Initialize(kind, parent) ==
    [kind |-> kind, parent |-> parent,
     dirty |-> TRUE, visible |-> TRUE,
     position |-> NewVector3,
     scale |-> Set2Components(1, 1),
     rotation |-> 0,
     SolidColor |-> White,
     transform |-> NewAffineTransform,
     nodes |-> <<>>, centered |-> FALSE, vertices |-> <<>>]

\* The vertex list NewRectangleNode builds, in halves
RectangleVertices(centered) ==
    IF centered
    THEN <<<<-1, -1>>, <<-1, 1>>, <<1, 1>>, <<1, -1>>>>
    ELSE <<Halves(<<0, 0>>), Halves(<<0, 1>>), Halves(<<1, 1>>), Halves(<<1, 0>>)>>

\* GroupNode.Add(n) on group g: the child sequence afterwards
\* Faulty variant: the new child goes in front
Add_front(g, n) == <<n>> \o node[g].nodes

Add(g, n) == Append(node[g].nodes, n)

\* GroupNode.Find's loop from child i (counted from 1) on: f and fno keep
\* their zero values, 0 and nil, when no child is identical to n
RECURSIVE FindFrom(_, _, _)
FindFrom(s, n, i) ==
    IF i > Len(s) THEN [f |-> 0, fno |-> Nil]
    ELSE IF s[i] = n THEN [f |-> i - 1, fno |-> s[i]]
    ELSE FindFrom(s, n, i + 1)

\* GroupNode.Find(n) on group g: the pair returned, f counted from 0
Find(g, n) == FindFrom(node[g].nodes, n, 1)

\* copy(gn.nodes[j:], gn.nodes[j+1:]); gn.nodes[len-1] = nil; gn.nodes = gn.nodes[:len-1]
Cut(s, j) ==
    LET copied == [i \in 1 .. Len(s) |-> IF i >= j + 1 /\ i < Len(s) THEN s[i + 1] ELSE s[i]]
        cleared == [copied EXCEPT ![Len(s)] = Nil]
    IN  SubSeq(cleared, 1, Len(s) - 1)

\* Faulty variant: the index is used without testing the node returned
Remove_unchecked(g, n) ==
    IF node[g].nodes = <<>> THEN <<>> ELSE Cut(node[g].nodes, Find(g, n).f)

\* GroupNode.Remove(n) on group g: the child sequence afterwards
Remove(g, n) ==
    LET found == Find(g, n) IN
    IF found.fno # Nil THEN Cut(node[g].nodes, found.f) ELSE node[g].nodes

\* The heap after a constructor has built record r; autoAdd calls parent.Add,
\* which dereferences a nil parent.
Construct(r, autoAdd) ==
    LET id == Len(node) + 1 IN
    IF autoAdd /\ r.parent = Nil
    THEN /\ panic' = "nil pointer dereference"
         /\ UNCHANGED node
    ELSE /\ node' = IF autoAdd
                    THEN [Append(node, r) EXCEPT ![r.parent].nodes = Add(r.parent, id)]
                    ELSE Append(node, r)
         /\ UNCHANGED panic

NewGroupNode(parent, autoAdd) ==
    /\ calls = <<>> /\ panic = "none"
    /\ Len(node) < MaxNodes
    /\ Construct(Initialize("group", parent), autoAdd)
    /\ UNCHANGED <<ctxVars, tPoints, callVars, dc, calls, updated, visited, frames, engine, ps, sets, run, entry>>

NewRectangleNode(parent, centered, autoAdd) ==
    /\ calls = <<>> /\ panic = "none"
    /\ Len(node) < MaxNodes
    /\ Construct([Initialize("rect", parent) EXCEPT
                     !.centered = centered,
                     !.vertices = RectangleVertices(centered)], autoAdd)
    /\ UNCHANGED <<ctxVars, tPoints, callVars, dc, calls, updated, visited, frames, engine, ps, sets, run, entry>>

\* Degrees to the model's angle unit: angle * DegreeToRadians, in quarter turns
DegreeToQuarters(deg) == deg \div 90

\* The dirty flag a position / rotation / scale setter leaves
SetterDirty_kept(nd) == nd.dirty

SetterDirty(nd) == TRUE

\* The node record after each setter
SetPosition(nd, v) ==
    [nd EXCEPT !.dirty = SetterDirty(nd), !.position = Set2Components(v[1], v[2])]

SetPositionBy2Comp(nd, x, y) ==
    [nd EXCEPT !.dirty = SetterDirty(nd), !.position = Set2Components(x, y)]

SetScale(nd, v) ==
    [nd EXCEPT !.dirty = SetterDirty(nd), !.scale = Set2Components(v[1], v[2])]

SetScaleUniform(nd, s) ==
    [nd EXCEPT !.dirty = SetterDirty(nd), !.scale = ScaleBy(nd.scale, s)]

SetRotation(nd, q) ==
    [nd EXCEPT !.dirty = SetterDirty(nd), !.rotation = q]

SetRotationByDegree(nd, deg) ==
    [nd EXCEPT !.dirty = SetterDirty(nd), !.rotation = DegreeToQuarters(deg)]

\* The getters: what each returns for node record nd
Position(nd) == nd.position

\* BaseNode.Scale() (Scale is the name of AffineTransform.Scale in this module)
NodeScale(nd) == nd.position

Rotation(nd) == nd.rotation

SetVisible(nd) == [nd EXCEPT !.visible = TRUE]

SetInvisible(nd) == [nd EXCEPT !.visible = FALSE]

\* Faulty variant: scale, then rotation, then translation
LocalTransform_reordered(nd) ==
    LET t1 == IF nd.scale[1] # 1 \/ nd.scale[2] # 1
              THEN Scale(ToIdentity, nd.scale[1], nd.scale[2])
              ELSE ToIdentity
        t2 == IF nd.rotation # 0 THEN Rotate(t1, nd.rotation) ELSE t1
    IN  Translate(t2, nd.position[1], nd.position[2])

\* The transform calcTransform builds for a dirty node
LocalTransform(nd) ==
    LET t1 == Translate(ToIdentity, nd.position[1], nd.position[2])
        t2 == IF nd.rotation # 0 THEN Rotate(t1, nd.rotation) ELSE t1
    IN  IF nd.scale[1] # 1 \/ nd.scale[2] # 1
        THEN Scale(t2, nd.scale[1], nd.scale[2])
        ELSE t2

\* Faulty variant: clears the flag without rebuilding the transform
calcTransform_stale(nd) == [nd EXCEPT !.dirty = FALSE]

\* Faulty variant: rebuilds the transform without clearing the flag
calcTransform_dirty(nd) ==
    IF nd.dirty THEN [nd EXCEPT !.transform = LocalTransform(nd)] ELSE nd

\* BaseNode.calcTransform: the node record afterwards (its transform is the result)
calcTransform(nd) ==
    IF nd.dirty
    THEN [nd EXCEPT !.transform = LocalTransform(nd), !.dirty = FALSE]
    ELSE nd

\* A call of setter / visibility operation f on node n between walks
Mutate(n, nd) ==
    /\ calls = <<>> /\ panic = "none"
    /\ n \in Allocated
    /\ node' = [node EXCEPT ![n] = nd]
    /\ UNCHANGED <<ctxVars, tPoints, callVars, dc, calls, updated, visited, panic, frames, engine, ps, run, entry>>

\* A read of node n's transform between walks
ReadTransform(n) ==
    /\ calls = <<>> /\ panic = "none"
    /\ n \in Allocated
    /\ node' = [node EXCEPT ![n] = calcTransform(node[n])]
    /\ UNCHANGED <<ctxVars, tPoints, callVars, dc, calls, updated, visited, panic, frames, engine, ps, sets, run, entry>>

-----------------------------------------------------------------------------
(* DrawPolygon *)

\* The scratch buffer after the vertices have been transformed into it
Transformed(vertices) ==
    [i \in 1 .. Len(tPoints) |->
        IF i <= Len(vertices) THEN ApplyToHalves(context, vertices[i]) ELSE tPoints[i]]

\* The path issued: MoveTo(tPoints[0]), then LineTo(tPoints[i]) for 1 <= i < len(vertices)
Path(points, count) == <<points[1]>> \o SubSeq(points, 2, count)

\* Faulty variant: a list longer than the scratch buffer is cut to its size
\* and drawn
DrawPolygon_truncated(n, vertices, color) ==
    /\ tPoints' = Transformed(vertices)
    /\ dc' = Append(dc, [node |-> n, color |-> color,
                         path |-> Path(tPoints', IF Len(vertices) > Len(tPoints)
                                                 THEN Len(tPoints) ELSE Len(vertices))])
    /\ UNCHANGED panic

\* RenderContext.DrawPolygon(vertices, color), called for node n.  A vertex
\* list longer than the scratch buffer indexes it out of range.
DrawPolygon(n, vertices, color) ==
    IF Len(vertices) > Len(tPoints)
    THEN /\ tPoints' = Transformed(vertices)
         /\ panic' = "tPoints: index out of range"
         /\ UNCHANGED dc
    ELSE /\ tPoints' = Transformed(vertices)
         /\ dc' = Append(dc, [node |-> n, color |-> color,
                              path |-> Path(tPoints', Len(vertices))])
         /\ UNCHANGED panic

-----------------------------------------------------------------------------
(* The Render walk: GroupNode.Render, RectangleNode.Render, BaseNode.Render *)

Frame(op, n, pc) == [op |-> op, n |-> n, pc |-> pc, i |-> 1]

Top == calls[Len(calls)]

Return == SubSeq(calls, 1, Len(calls) - 1)

Goto(pc) == [calls EXCEPT ![Len(calls)].pc = pc]

Walking(op, pc) == calls # <<>> /\ panic = "none" /\ Top.op = op /\ Top.pc = pc

\* What the context, its stack and the pool hold when a Render begins
Snapshot ==
    [context |-> context, depth |-> Len(contextState), dcDepth |-> dcDepth,
     pool |-> {AffinePool[i] : i \in 1 .. Len(AffinePool)}, free |-> Len(AffinePool)]

\* n.Render(context) is called from outside a walk
StartRender(n) ==
    /\ calls = <<>> /\ panic = "none"
    /\ n \in Allocated
    /\ calls' = <<Frame("Render", n, "visible")>>
    /\ dc' = <<>>
    /\ visited' = <<>>
    /\ updated' = <<>>
    /\ entry' = Snapshot
    /\ UNCHANGED <<node, ctxVars, tPoints, callVars, panic, sets, run>>

\* if !n.IsVisible() { return }   (RectangleNode.Render tests the flag and
\* BaseNode.Render tests it again, with nothing in between)
\* Faulty variant: the flag is not tested
RenderVisible_ignored(nd) == TRUE

RenderVisible(nd) == nd.visible

RenderCheck ==
    /\ Walking("Render", "visible")
    /\ calls' = IF RenderVisible(node[Top.n]) THEN Goto("save") ELSE Return
    /\ visited' = IF RenderVisible(node[Top.n]) THEN Append(visited, Top.n) ELSE visited
    /\ UNCHANGED <<node, ctxVars, tPoints, callVars, dc, updated, panic, frames, engine, ps, sets, run, entry>>

\* context.Save()
RenderSave ==
    /\ Walking("Render", "save")
    /\ Save
    /\ calls' = Goto("transform")
    /\ UNCHANGED <<node, tPoints, callVars, dc, updated, visited, frames, engine, ps, sets, run, entry>>

\* context.Transform(n.calcTransform())
RenderTransform ==
    /\ Walking("Render", "transform")
    /\ node' = [node EXCEPT ![Top.n] = calcTransform(node[Top.n])]
    /\ Transform(node'[Top.n].transform)
    /\ calls' = Goto("body")
    /\ UNCHANGED <<tPoints, callVars, dc, updated, visited, frames, engine, ps, sets, run, entry>>

\* The child GroupNode.Render visits in iteration i of: for _, n := range gn.nodes
RenderNext_reversed(nd, i) == nd.nodes[Len(nd.nodes) + 1 - i]

RenderNext(nd, i) == nd.nodes[i]

\* for _, n := range gn.nodes { n.Render(context) }
RenderChild ==
    /\ Walking("Render", "body")
    /\ node[Top.n].kind = "group"
    /\ Top.i <= Len(node[Top.n].nodes)
    /\ calls' = Append([calls EXCEPT ![Len(calls)].i = Top.i + 1],
                       Frame("Render", RenderNext(node[Top.n], Top.i), "visible"))
    /\ UNCHANGED <<node, ctxVars, tPoints, callVars, dc, updated, visited, panic, frames, engine, ps, sets, run, entry>>

\* gn.Draw(context), which draws nothing, or n.drawer(context) = RectangleNode.Draw
RenderDraw ==
    /\ Walking("Render", "body")
    /\ \/ /\ node[Top.n].kind = "group"
          /\ Top.i > Len(node[Top.n].nodes)
          /\ UNCHANGED <<tPoints, callVars, dc, panic>>
       \/ /\ node[Top.n].kind = "rect"
          /\ DrawPolygon(Top.n, node[Top.n].vertices, node[Top.n].SolidColor)
    /\ calls' = Goto("restore")
    /\ UNCHANGED <<node, ctxVars, callVars, updated, visited, frames, engine, ps, sets, run, entry>>

\* context.Restore(), and the return to the caller
RenderRestore ==
    /\ Walking("Render", "restore")
    /\ Restore
    /\ calls' = Return
    /\ UNCHANGED <<node, tPoints, callVars, dc, updated, visited, frames, engine, ps, sets, run, entry>>

RenderStep ==
    \/ RenderCheck
    \/ RenderSave
    \/ RenderTransform
    \/ RenderChild
    \/ RenderDraw
    \/ RenderRestore

-----------------------------------------------------------------------------
(* The Update walk: GroupNode.Update, RectangleNode.Update, BaseNode.Update *)

\* n.Update(dt) is called from outside a walk.  No Update reads dt.
StartUpdate(n) ==
    /\ calls = <<>> /\ panic = "none"
    /\ n \in Allocated
    /\ calls' = <<Frame("Update", n, "base")>>
    /\ updated' = <<>>
    /\ dc' = <<>>
    /\ visited' = <<>>
    /\ UNCHANGED <<node, ctxVars, tPoints, callVars, panic, sets, run, entry>>

\* gn.BaseNode.Update(dt), or the empty RectangleNode.Update(dt)
UpdateBase ==
    /\ Walking("Update", "base")
    /\ updated' = Append(updated, Top.n)
    /\ calls' = IF node[Top.n].kind = "group" THEN Goto("children") ELSE Return
    /\ UNCHANGED <<node, ctxVars, tPoints, callVars, dc, visited, panic, frames, engine, ps, sets, run, entry>>

\* The child GroupNode.Update visits in iteration i
UpdateNext_reversed(nd, i) == nd.nodes[Len(nd.nodes) + 1 - i]

UpdateNext(nd, i) == nd.nodes[i]

\* for _, n := range gn.nodes { n.Update(dt) }, and the return after the loop
UpdateChildren ==
    /\ Walking("Update", "children")
    /\ calls' = IF Top.i <= Len(node[Top.n].nodes)
                THEN Append([calls EXCEPT ![Len(calls)].i = Top.i + 1],
                            Frame("Update", UpdateNext(node[Top.n], Top.i), "base"))
                ELSE Return
    /\ UNCHANGED <<node, ctxVars, tPoints, callVars, dc, updated, visited, panic, frames, engine, ps, sets, run, entry>>

UpdateStep == UpdateBase \/ UpdateChildren

-----------------------------------------------------------------------------
(* Particle, ParticleSystem.  Times are whole ticks, a colour is the        *)
(* sequence <<R, G, B, A>>.  ps.call names the latest call of the system   *)
(* and the particles it passed to Particle.Update or to a callback, in     *)
(* order; ps.age is an observer, the sum of the dt of the Updates each     *)
(* particle went through since it was last triggered.                      *)

\* NewParticle(): Duration 1.0, zero colours, not alive
NewParticle ==
    [Position |-> NewVector3, Velocity |-> NewVector3,
     Duration |-> 1, acculTime |-> 0,
     StartColor |-> <<0, 0, 0, 0>>, EndColor |-> <<0, 0, 0, 0>>,
     RenderColor |-> <<0, 0, 0, 0>>,
     IsAlive |-> FALSE]

\* NewParticleSystem(count, renderer, triggerer), with Initialize(count)
NewParticleSystem(count) ==
    [particles |-> [i \in 1 .. count |-> NewParticle],
     age |-> [i \in 1 .. count |-> 0],
     call |-> [name |-> "none", passed |-> <<>>]]

\* LinearEasing(timePosition, startValue, deltaValue, duration): the quotient
\* deltaValue*timePosition/duration + startValue as <<numerator, denominator>>
LinearEasing(timePosition, startValue, deltaValue, duration) ==
    <<deltaValue * timePosition + startValue * duration, duration>>

\* uint8(x) of a quotient between 0 and 255: the fraction is cut off
Uint8(x) == x[1] \div x[2]

\* Faulty variant: the particle expires only once its time is beyond Duration
ParticleUpdate_late(p, dt) ==
    IF ~p.IsAlive THEN p
    ELSE
        LET re == LinearEasing(p.acculTime, p.StartColor[1], -(p.StartColor[1] - p.EndColor[1]), p.Duration)
            gr == LinearEasing(p.acculTime, p.StartColor[2], -(p.StartColor[2] - p.EndColor[2]), p.Duration)
            bl == LinearEasing(p.acculTime, p.StartColor[3], -(p.StartColor[3] - p.EndColor[3]), p.Duration)
            acculTime == p.acculTime + dt
        IN  [p EXCEPT !.RenderColor = <<Uint8(re), Uint8(gr), Uint8(bl), p.StartColor[4]>>,
                      !.acculTime = acculTime,
                      !.Position = VectorAdd(p.Position, p.Velocity),
                      !.IsAlive = ~(acculTime > p.Duration)]

\* Particle.Update(dt): the particle afterwards
ParticleUpdate(p, dt) ==
    IF ~p.IsAlive THEN p
    ELSE
        LET re == LinearEasing(p.acculTime, p.StartColor[1], -(p.StartColor[1] - p.EndColor[1]), p.Duration)
            gr == LinearEasing(p.acculTime, p.StartColor[2], -(p.StartColor[2] - p.EndColor[2]), p.Duration)
            bl == LinearEasing(p.acculTime, p.StartColor[3], -(p.StartColor[3] - p.EndColor[3]), p.Duration)
            acculTime == p.acculTime + dt
        IN  [p EXCEPT !.RenderColor = <<Uint8(re), Uint8(gr), Uint8(bl), p.StartColor[4]>>,
                      !.acculTime = acculTime,
                      !.Position = VectorAdd(p.Position, p.Velocity),
                      !.IsAlive = ~(acculTime >= p.Duration)]

\* What the example's trigger callback draws from its random source: the
\* speed v, the quarter turns whose sine and cosine give vx and vy, the red
\* of the start colour and the end colour
TriggerDraws ==
    {[v |-> 1, ax |-> 1, ay |-> 0, c |-> 32, r |-> 127, g |-> 127, b |-> 127],
     [v |-> 2, ax |-> 0, ay |-> 2, c |-> 96, r |-> 254, g |-> 200, b |-> 127]}

\* particleTrigger(particle, system) of the example, drawing w: the particle
\* afterwards.  The window is 4 by 2 here, its centre (2, 1).
particleTrigger(particle, w) ==
    [particle EXCEPT !.Velocity = ScaleBy(Set2Components(Sin(w.ax), Cos(w.ay)), w.v),
                     !.StartColor = <<w.c, 32, 32, 255>>,
                     !.EndColor = <<w.r, w.g, w.b, 255>>,
                     !.Position = Set2Components(2, 1),
                     !.Duration = 2]

\* The indexes of ps.particles whose particle is alive, in index order
Alive ==
    SelectSeq([i \in DOMAIN ps.particles |-> i], LAMBDA i : ps.particles[i].IsAlive)

\* The index the loop of TriggerParticle stops at, 0 when it runs to the end
FirstNotAlive ==
    IF \A i \in DOMAIN ps.particles : ps.particles[i].IsAlive THEN 0
    ELSE CHOOSE i \in DOMAIN ps.particles :
            /\ ~ps.particles[i].IsAlive
            /\ \A j \in 1 .. i - 1 : ps.particles[j].IsAlive

psRest == <<node, ctxVars, tPoints, callVars, dc, calls, updated, visited, panic,
            frames, engine, sets, run, entry>>

\* ps.TriggerParticle(), the callback drawing w
TriggerParticle(w) ==
    /\ LET k == FirstNotAlive IN
       IF k = 0
       THEN ps' = [ps EXCEPT !.call = [name |-> "TriggerParticle", passed |-> <<>>]]
       ELSE LET p == [ps.particles[k] EXCEPT !.IsAlive = TRUE,
                                             !.RenderColor = ps.particles[k].StartColor,
                                             !.acculTime = 0]
            IN  ps' = [ps EXCEPT !.particles[k] = particleTrigger(p, w),
                                 !.age[k] = 0,
                                 !.call = [name |-> "TriggerParticle", passed |-> <<k>>]]
    /\ UNCHANGED psRest

\* ps.Update(dt)
ParticleSystemUpdate(dt) ==
    /\ ps' = [ps EXCEPT
                !.particles = [i \in DOMAIN ps.particles |->
                                 IF ps.particles[i].IsAlive
                                 THEN ParticleUpdate(ps.particles[i], dt)
                                 ELSE ps.particles[i]],
                !.age = [i \in DOMAIN ps.particles |->
                            IF ps.particles[i].IsAlive THEN ps.age[i] + dt ELSE ps.age[i]],
                !.call = [name |-> "Update", passed |-> Alive]]
    /\ UNCHANGED psRest

\* ps.Render(pixels): the renderer callback gets the particles that are alive
ParticleSystemRender ==
    /\ ps' = [ps EXCEPT !.call = [name |-> "Render", passed |-> Alive]]
    /\ UNCHANGED psRest

-----------------------------------------------------------------------------
(* Engine: the running flag and the frame loop of Run.  pc names the      *)
(* statement Run executes next; frame, updates and renders count the      *)
(* iterations begun and the calls of root.Update and root.Render; quitAt  *)
(* is the value of frame when the flag was first cleared (-1: never)      *)

NewEngine ==
    [running |-> FALSE, pc |-> "idle", frame |-> 0, updates |-> 0, renders |-> 0,
     quitAt |-> -1]

\* Events sdl.PumpEvents hands to the filter
Events == {"QuitEvent", "MouseMotionEvent", "KeyboardEvent ESCAPE PRESSED",
           "KeyboardEvent ESCAPE RELEASED", "KeyboardEvent T PRESSED"}

\* v.running after filterEvent(e)
filterEvent(e) ==
    IF e \in {"QuitEvent", "KeyboardEvent ESCAPE PRESSED"} THEN FALSE ELSE engine.running

\* The engine with its flag set to r
Flagged(r) ==
    [engine EXCEPT !.running = r,
                   !.quitAt = IF ~r /\ engine.quitAt = -1 THEN engine.frame ELSE engine.quitAt]

\* Faulty variant: the scene graph is rendered before it is updated
Following_swapped(pc) ==
    CASE pc = "PumpEvents"  -> "Render"
      [] pc = "Render"      -> "Update"
      [] pc = "Update"      -> "game.Update"
      [] pc = "game.Update" -> "game.Render"
      [] pc = "game.Render" -> "loop"

\* The statement of the loop body that follows statement pc
Following(pc) ==
    CASE pc = "PumpEvents"  -> "Update"
      [] pc = "Update"      -> "game.Update"
      [] pc = "game.Update" -> "Render"
      [] pc = "Render"      -> "game.Render"
      [] pc = "game.Render" -> "loop"

\* At statement pc of Run, every call made so far having returned
At(pc) == engine.pc = pc /\ calls = <<>> /\ panic = "none"

engineRest == <<node, ctxVars, tPoints, callVars, dc, calls, updated, visited, panic,
                frames, ps, sets, run, entry>>

\* Run is called: v.running = true
Run ==
    /\ At("idle")
    /\ engine' = [engine EXCEPT !.running = TRUE, !.pc = "loop"]
    /\ UNCHANGED engineRest

\* for v.running { ... }: the next iteration begins, or Run returns
RunLoop ==
    /\ At("loop")
    /\ engine.running => frames + 2 <= MaxFrames
    /\ engine' = IF engine.running
                 THEN [engine EXCEPT !.pc = "PumpEvents", !.frame = engine.frame + 1]
                 ELSE [engine EXCEPT !.pc = "returned"]
    /\ UNCHANGED engineRest

\* sdl.PumpEvents() with no event pending
RunPumpNone ==
    /\ At("PumpEvents")
    /\ engine' = [engine EXCEPT !.pc = Following("PumpEvents")]
    /\ UNCHANGED engineRest

\* sdl.PumpEvents() handing event e to filterEvent
RunPumpEvents(e) ==
    /\ At("PumpEvents")
    /\ engine' = [Flagged(filterEvent(e)) EXCEPT !.pc = Following("PumpEvents")]
    /\ UNCHANGED engineRest

\* v.root.Update(dt)
RunRootUpdate ==
    /\ At("Update")
    /\ engine' = [engine EXCEPT !.pc = Following("Update"), !.updates = engine.updates + 1]
    /\ frames' = frames + 1
    /\ StartUpdate(Root)
    /\ UNCHANGED ps

\* v.game.Update(dt, keyState) and v.clearDisplay()
RunGameUpdate ==
    /\ At("game.Update")
    /\ engine' = [engine EXCEPT !.pc = Following("game.Update")]
    /\ UNCHANGED engineRest

\* v.root.Render(v.context)
RunRootRender ==
    /\ At("Render")
    /\ engine' = [engine EXCEPT !.pc = Following("Render"), !.renders = engine.renders + 1]
    /\ frames' = frames + 1
    /\ StartRender(Root)
    /\ UNCHANGED ps

\* v.game.Render(v.pixels), the overlay, Present and the delay
RunGameRender ==
    /\ At("game.Render")
    /\ engine' = [engine EXCEPT !.pc = Following("game.Render")]
    /\ UNCHANGED engineRest

\* v.Quit(), called by the application at any point before Run has returned
Quit ==
    /\ engine.pc # "returned"
    /\ panic = "none"
    /\ engine' = Flagged(FALSE)
    /\ UNCHANGED engineRest

-----------------------------------------------------------------------------
(* The state after NewEngine and NewRenderContext *)

Init ==
    /\ node = <<Initialize("group", Nil)>>
    /\ context = NewAffineTransform
    /\ contextState = <<>>
    /\ AffinePool = NewAffineTransformPool(AffinePoolCount)
    /\ at = [i \in Instances |-> NewAffineTransform]
    /\ dcDepth = 0
    /\ tPoints = [i \in 1 .. ScratchCount |-> NewVector3]
    /\ dc = <<>>
    /\ calls = <<>>
    /\ updated = <<>>
    /\ visited = <<>>
    /\ panic = "none"
    /\ frames = 0
    /\ engine = NewEngine
    /\ ps = NewParticleSystem(ParticleCount)
    /\ sets = 0
    /\ run = [base |-> NewAffineTransform, saves |-> 0, restores |-> 0, calls |-> 0]
    /\ entry = [context |-> NewAffineTransform, depth |-> 0, dcDepth |-> 0,
                pool |-> Instances, free |-> AffinePoolCount]
    /\ VectorsPool = NewVectorPool(VectorPoolCount)
    /\ ret = NoReturn
    /\ alg = [A |-> NewAffineTransform, B |-> NewAffineTransform, C |-> NewAffineTransform,
              op |-> "none", out |-> NewAffineTransform, out2 |-> NewAffineTransform,
              args |-> <<>>, v |-> <<0, 0>>, v2 |-> <<0, 0>>]

-----------------------------------------------------------------------------
(* SpecCtx: a client calling Save, Transform and Restore on the context *)

\* Transforms handed to RenderContext.Transform
CtxTransforms == {Set(2, 0, 0, 3, 5, 0), SetToRotate(1)}

nodeVars == <<node, tPoints, callVars, dc, calls, updated, visited, frames, engine, ps, sets, entry>>

\* The client may make another call
CtxCall == calls = <<>> /\ panic = "none" /\ run.calls < MaxCalls

CtxSave ==
    /\ CtxCall
    /\ Save
    /\ run' = IF run.saves > 0 /\ run.restores = 0
              THEN [run EXCEPT !.saves = run.saves + 1, !.calls = run.calls + 1]
              ELSE [run EXCEPT !.base = context, !.saves = 1, !.restores = 0,
                               !.calls = run.calls + 1]
    /\ UNCHANGED nodeVars

CtxTransform(t) ==
    /\ CtxCall
    /\ Transform(t)
    /\ run' = [run EXCEPT !.saves = 0, !.restores = 0, !.calls = run.calls + 1]
    /\ UNCHANGED nodeVars

CtxRestore ==
    /\ CtxCall
    /\ Restore
    /\ run' = IF run.restores < run.saves
              THEN [run EXCEPT !.restores = run.restores + 1, !.calls = run.calls + 1]
              ELSE [run EXCEPT !.saves = 0, !.restores = 0, !.calls = run.calls + 1]
    /\ UNCHANGED nodeVars

NextCtx ==
    \/ CtxSave
    \/ \E t \in CtxTransforms : CtxTransform(t)
    \/ CtxRestore

SpecCtx == Init /\ [][NextCtx]_vars

\* C1: when N >= 1 Save calls have been followed by N Restore calls, with no
\* other call on the context in between, the current transform equals,
\* coefficient for coefficient, its value before the first of the Save calls.
SaveRestoreExact ==
    (panic = "none" /\ run.saves > 0 /\ run.restores = run.saves) => context = run.base

\* Three nested Saves unwound by three Restores on a transformed context
SaveRestoreExactWitness ==
    /\ panic = "none" /\ run.saves = 3 /\ run.restores = 3
    /\ context # NewAffineTransform
    /\ context.b # context.c

-----------------------------------------------------------------------------
(* The frame driver: Engine.Run calls root.Update(dt) and then             *)
(* root.Render(context) in every iteration of its loop                     *)

\* The application builds and configures the hierarchy before Engine.Start
Building == frames = 0

\* root.Update(dt) of the next iteration
RunUpdate ==
    /\ frames < MaxFrames
    /\ frames % 2 = 0
    /\ frames' = frames + 1
    /\ StartUpdate(Root)
    /\ UNCHANGED <<engine, ps>>

\* root.Render(v.context) of the iteration
RunRender ==
    /\ frames < MaxFrames
    /\ frames % 2 = 1
    /\ frames' = frames + 1
    /\ StartRender(Root)
    /\ UNCHANGED <<engine, ps>>

-----------------------------------------------------------------------------
(* SpecTree: an application builds a tree under the root, configures its   *)
(* nodes, and the frame driver walks it                                    *)

\* Constructor and setter calls made so far
Ops == (Len(node) - 1) + sets

TreeSet(n, nd) ==
    /\ Building
    /\ Ops < MaxOps
    /\ sets' = sets + 1
    /\ Mutate(n, nd)

NextTree ==
    \/ \E p \in Groups : Building /\ Ops < MaxOps /\ NewGroupNode(p, TRUE)
    \/ \E p \in Groups : Building /\ Ops < MaxOps /\ NewRectangleNode(p, FALSE, TRUE)
    \/ \E n \in Allocated : TreeSet(n, SetPositionBy2Comp(node[n], 5, 0))
    \/ \E n \in Allocated : TreeSet(n, SetScaleUniform(node[n], 2))
    \/ \E n \in Allocated : TreeSet(n, SetRotationByDegree(node[n], 90))
    \/ \E n \in Allocated : TreeSet(n, SetInvisible(node[n]))
    \/ RunUpdate
    \/ RunRender
    \/ RenderStep
    \/ UpdateStep

SpecTree == Init /\ [][NextTree]_vars

-----------------------------------------------------------------------------
(* SpecChain: an application builds a chain of nodes, each the child of    *)
(* the one built before it, and positions them                             *)

\* Positions handed to SetPosition
ChainPositions == {<<5, 0>>, <<10, 0>>, <<20, 0>>}

ChainSet(n, nd) ==
    /\ Building
    /\ sets < MaxSets
    /\ sets' = sets + 1
    /\ Mutate(n, nd)

\* The node built last, when it is a container
Newest == {n \in Groups : n = Len(node)}

NextChain ==
    \/ \E p \in Newest : Building /\ NewGroupNode(p, TRUE)
    \/ \E p \in Newest, c \in BOOLEAN : Building /\ NewRectangleNode(p, c, TRUE)
    \/ \E n \in Allocated, v \in ChainPositions : ChainSet(n, SetPosition(node[n], v))
    \/ RunUpdate
    \/ RunRender
    \/ RenderStep
    \/ UpdateStep

SpecChain == Init /\ [][NextChain]_vars

-----------------------------------------------------------------------------
(* SpecNode: an application adds one rectangle to the root and keeps       *)
(* calling the setters and reading the transforms, between the walks of    *)
(* the frame driver                                                        *)

NodeSet(n, nd) ==
    /\ Mutate(n, nd)
    /\ UNCHANGED sets

NodeScaleUniform(n, s) ==
    /\ n \in Allocated
    /\ node[n].scale[1] * s <= MaxScale
    /\ node[n].scale[2] * s <= MaxScale
    /\ NodeSet(n, SetScaleUniform(node[n], s))

NodeSetter(n) ==
    \/ NodeSet(n, SetPosition(node[n], <<5, 0>>))
    \/ NodeSet(n, SetPositionBy2Comp(node[n], 0, 0))
    \/ NodeSet(n, SetScale(node[n], <<1, 1>>))
    \/ NodeScaleUniform(n, 2)
    \/ NodeSet(n, SetRotation(node[n], 1))
    \/ NodeSet(n, SetRotationByDegree(node[n], 0))

NodeWalk ==
    \/ StartUpdate(Root) /\ UNCHANGED <<frames, engine, ps>>
    \/ StartRender(Root) /\ UNCHANGED <<frames, engine, ps>>
    \/ RenderStep
    \/ UpdateStep

NextNode ==
    \/ Groups = Allocated /\ NewRectangleNode(Root, FALSE, TRUE)
    \/ \E n \in Allocated \ Groups : NodeSetter(n)
    \/ \E n \in Allocated : ReadTransform(n)
    \/ NodeWalk

SpecNode == Init /\ [][NextNode]_vars

\* C5: a node whose dirty flag is false has a cached transform equal to the
\* transform of its current position, rotation and scale.
CacheValid ==
    \A n \in Allocated : ~node[n].dirty => node[n].transform = LocalTransform(node[n])

\* A clean node whose position, rotation and scale have all been set
CacheValidWitness ==
    \E n \in Allocated :
        /\ ~node[n].dirty
        /\ node[n].position = <<5, 0>> /\ node[n].rotation = 1 /\ node[n].scale = <<2, 2>>
        /\ node[n].transform = Set(0, 2, -2, 0, 5, 0)

\* A step of SpecNode that is no call of a position, rotation or scale setter
NotSetter ==
    \/ NewRectangleNode(Root, FALSE, TRUE)
    \/ \E n \in Allocated : ReadTransform(n)
    \/ NodeWalk

\* C6: a node starts dirty; a read of its transform leaves the dirty flag
\* false; and a step that is no setter call (a read, a step of an Update or
\* of a Render walk) keeps a clean node clean with the same coefficients.
CacheStable ==
    /\ \A n \in Allocated : node[n].dirty
    /\ [][/\ Len(node') > Len(node) => node'[Len(node')].dirty
          /\ \A n \in Allocated : ReadTransform(n) => ~node'[n].dirty
          /\ NotSetter =>
                \A n \in Allocated :
                    ~node[n].dirty =>
                       /\ ~node'[n].dirty
                       /\ node'[n].transform = node[n].transform]_vars

\* A later Render (the root's Save took another instance than the first of
\* the fresh pool, which an earlier Render has returned to the end) has drawn
\* the rectangle from its clean, non-identity cached transform
CacheStableWitness ==
    /\ calls # <<>>
    /\ calls[1].op = "Render"
    /\ contextState # <<>>
    /\ \A i \in DOMAIN contextState : contextState[i] # NewAffineTransformPool(AffinePoolCount)[1]
    /\ \E k \in DOMAIN dc :
          /\ ~node[dc[k].node].dirty
          /\ node[dc[k].node].transform # NewAffineTransform

\* C7: a setter call on a node whose cache is clean leaves the node dirty,
\* and a read of a node's transform yields the transform of the position,
\* rotation and scale the node has at the read.
SetterInvalidates ==
    [][/\ \A n \in Allocated : (NodeSetter(n) /\ ~node[n].dirty) => node'[n].dirty
       /\ \A n \in Allocated :
             ReadTransform(n) =>
                /\ node'[n].transform = LocalTransform(node[n])
                /\ node'[n].position = node[n].position
                /\ node'[n].rotation = node[n].rotation
                /\ node'[n].scale = node[n].scale]_vars

\* A setter has been called on a clean node: it is dirty and its cached
\* transform is the one of the earlier values
SetterInvalidatesWitness ==
    \E n \in Allocated :
        /\ node[n].dirty
        /\ node[n].transform # NewAffineTransform
        /\ node[n].transform # LocalTransform(node[n])

-----------------------------------------------------------------------------
(* SpecGroup: a client building nodes under the root and calling the root's
   Add, Remove and Find *)

\* A direct call on a container by the client; a run of the client ends with
\* its Find call
GroupCall == calls = <<>> /\ panic = "none" /\ ret = NoReturn

groupVars == <<ctxVars, tPoints, dc, calls, updated, visited, panic, frames, engine, ps, run, entry,
               VectorsPool, alg>>

AddCall(g, n) ==
    /\ GroupCall
    /\ Len(node[g].nodes) < MaxSets
    /\ node' = [node EXCEPT ![g].nodes = Add(g, n)]
    /\ UNCHANGED <<groupVars, sets, ret>>

RemoveCall(g, n) ==
    /\ GroupCall
    /\ node' = [node EXCEPT ![g].nodes = Remove(g, n)]
    /\ UNCHANGED <<groupVars, sets, ret>>

FindCall(g, n) ==
    /\ GroupCall
    /\ ret' = [call |-> "Find", g |-> g, n |-> n, f |-> Find(g, n).f, fno |-> Find(g, n).fno]
    /\ UNCHANGED <<groupVars, sets, node>>

NextGroup ==
    \/ \E a \in BOOLEAN : GroupCall /\ NewGroupNode(Root, a)
    \/ \E a \in BOOLEAN : GroupCall /\ NewRectangleNode(Root, FALSE, a)
    \/ \E n \in Allocated : AddCall(Root, n)
    \/ \E n \in Allocated \cup {Nil} : RemoveCall(Root, n)
    \/ \E n \in Allocated \cup {Nil} : FindCall(Root, n)

SpecGroup == Init /\ [][NextGroup]_vars

\* s with its element at index k left out
Without(s, k) == SubSeq(s, 1, k - 1) \o SubSeq(s, k + 1, Len(s))

\* C11: Remove(n) on a container that holds n leaves the old child sequence
\* with one occurrence of n deleted, the other children in their order and the
\* length one less; on a container that does not hold n it leaves the child
\* sequence as it was.  No other node changes.
RemoveExact ==
    [][\A g \in Groups, n \in Allocated \cup {Nil} :
          RemoveCall(g, n) =>
             LET s == node[g].nodes
                 t == node'[g].nodes
             IN  /\ IF \E k \in DOMAIN s : s[k] = n
                    THEN /\ Len(t) = Len(s) - 1
                         /\ \E k \in DOMAIN s : s[k] = n /\ t = Without(s, k)
                    ELSE t = s
                 /\ \A m \in Allocated \ {g} : node'[m] = node[m]]_vars

\* A child that stood between two others has been removed from the root
RemoveExactWitness ==
    /\ Len(node) = 4
    /\ node[Root].nodes = <<2, 4>>
    /\ node[3].parent = Root

\* C12 as claimed: after Find(n) has returned (f, fno), for a child n of the
\* container fno is n and f is the index of the first child identical to
\* n; for a node that is no child fno is the absent node and f identifies
\* no child of the container.  (A client's run ends with its Find call, so
\* the child sequence is the one Find scanned.)
FindIndexUnambiguous ==
    ret.call = "Find" =>
        LET s == node[ret.g].nodes IN
        IF \E k \in DOMAIN s : s[k] = ret.n
        THEN /\ ret.fno = ret.n
             /\ s[ret.f + 1] = ret.n
             /\ \A k \in 1 .. ret.f : s[k] # ret.n
        ELSE /\ ret.fno = Nil
             /\ ret.f + 1 \notin DOMAIN s

\* C13: Add(n), and construction with the auto-add flag set, make the node
\* the last child of the parent and keep the earlier children in place;
\* construction with the flag cleared leaves the parent's children as they
\* were; the scene root is constructed with no parent.
AddLast ==
    /\ node[Root].parent = Nil /\ node[Root].nodes = <<>> /\ panic = "none"
    /\ [][LET s == node[Root].nodes
              t == node'[Root].nodes
              id == Len(node) + 1
              Attached(n) == /\ Len(t) = Len(s) + 1
                             /\ t[Len(t)] = n
                             /\ SubSeq(t, 1, Len(s)) = s
          IN  /\ \A n \in Allocated : AddCall(Root, n) => Attached(n)
              /\ NewGroupNode(Root, TRUE) => Attached(id) /\ node'[id].parent = Root
              /\ NewRectangleNode(Root, FALSE, TRUE) => Attached(id) /\ node'[id].parent = Root
              /\ NewGroupNode(Root, FALSE) => t = s /\ node'[id].parent = Root
              /\ NewRectangleNode(Root, FALSE, FALSE) => t = s /\ node'[id].parent = Root]_vars

\* The root holds an auto-added container, then an explicitly added leaf that
\* was constructed detached, then an auto-added leaf
AddLastWitness ==
    /\ Len(node) = 4
    /\ node[2].kind = "group" /\ node[3].kind = "rect" /\ node[4].kind = "rect"
    /\ node[Root].nodes = <<2, 4, 3>>

-----------------------------------------------------------------------------
(* SpecDeep: an application nests containers, one inside the other, deeper *)
(* than the pool has instances, and the frame driver walks the chain       *)

\* NewGroupNode(newest, true): the chain grows by one container
DeepGroup ==
    /\ Building
    /\ calls = <<>> /\ panic = "none"
    /\ Len(node) <= AffinePoolCount
    /\ Construct(Initialize("group", Len(node)), TRUE)
    /\ UNCHANGED <<ctxVars, tPoints, callVars, dc, calls, updated, visited, frames, engine, ps, sets, run, entry>>

DeepSet(n, nd) ==
    /\ Building
    /\ Mutate(n, nd)
    /\ UNCHANGED sets

NextDeep ==
    \/ DeepGroup
    \/ \E n \in Allocated : DeepSet(n, SetInvisible(node[n]))
    \/ \E n \in Allocated : DeepSet(n, SetVisible(node[n]))
    \/ RunUpdate
    \/ RunRender
    \/ RenderStep
    \/ UpdateStep

SpecDeep == Init /\ [][NextDeep]_vars

\* C15 as claimed: at no point of root.Render is the pool's Pop called while
\* the pool holds no instance.
PoolNeverPoppedEmpty ==
    /\ ~(calls # <<>> /\ Top.op = "Render" /\ Top.pc = "save" /\ Len(AffinePool) = 0)
    /\ panic # "pool: index out of range"

-----------------------------------------------------------------------------
(* SpecPool: a client calling Save and Restore on the context and Pop and  *)
(* Push on the pool of vectors                                             *)

\* VectorsPool.Pop()
VectorPop ==
    /\ CtxCall
    /\ IF OutOfRange(VectorsPool)
       THEN /\ panic' = "pool: index out of range"
            /\ UNCHANGED <<VectorsPool, ret>>
       ELSE /\ ret' = [call |-> "Pop", n |-> PoolPopped(VectorsPool)]
            /\ VectorsPool' = PoolRest(VectorsPool)
            /\ UNCHANGED panic
    /\ run' = [run EXCEPT !.calls = run.calls + 1]
    /\ UNCHANGED <<node, ctxVars, tPoints, dc, calls, updated, visited, frames, engine, ps, sets, entry, alg>>

\* VectorsPool.Push(n)
VectorPush(n) ==
    /\ CtxCall
    /\ Len(VectorsPool) < VectorPoolCount
    /\ VectorsPool' = PoolPush(VectorsPool, n)
    /\ run' = [run EXCEPT !.calls = run.calls + 1]
    /\ UNCHANGED <<node, ctxVars, tPoints, dc, calls, updated, visited, panic, frames, engine, ps, sets,
                   entry, ret, alg>>

NextPool ==
    \/ CtxSave
    \/ CtxRestore
    \/ VectorPop
    \/ \E n \in 1 .. VectorPoolCount : VectorPush(n)

SpecPool == Init /\ [][NextPool]_vars

\* C16: Pop on an empty pool fails with a run-time panic: it returns nothing
\* (what an earlier Pop returned stays the latest return), the pool stays
\* empty, and a Save that hits the exhausted transform pool pushes nothing
\* onto the stack of saved transforms.  What a Pop returns, and what the
\* stack holds, is always a pooled instance, never a placeholder.
PopEmptyFails ==
    /\ [][/\ (CtxSave /\ Len(AffinePool) = 0) =>
                /\ panic' = "pool: index out of range"
                /\ AffinePool' = <<>>
                /\ contextState' = contextState
                /\ at' = at
          /\ (VectorPop /\ Len(VectorsPool) = 0) =>
                /\ panic' = "pool: index out of range"
                /\ VectorsPool' = <<>>
                /\ ret' = ret]_vars
    /\ [](/\ \A k \in DOMAIN contextState : contextState[k] \in Instances
          /\ ret.call = "Pop" => ret.n \in 1 .. VectorPoolCount)

\* A Save has hit the exhausted transform pool: every instance is on the
\* stack, the pool is empty, the program has panicked
PopEmptyFailsWitness ==
    /\ panic = "pool: index out of range"
    /\ AffinePool = <<>>
    /\ Len(contextState) = AffinePoolCount
    /\ context = NewAffineTransform

-----------------------------------------------------------------------------
(* SpecDraw: a client calling Transform and DrawPolygon on the context *)

\* Vertex lists of 0 to ScratchCount + 1 vertices, in halves
DrawVertices == [i \in 1 .. ScratchCount + 1 |-> <<2 * i, i * i>>]

VertexLists == {SubSeq(DrawVertices, 1, k) : k \in 0 .. ScratchCount + 1}

DrawCall == calls = <<>> /\ panic = "none" /\ run.calls < MaxDraws

DrawTransform(t) ==
    /\ DrawCall
    /\ CtxTransform(t)

\* c.DrawPolygon(vertices, color) called by the client, for no node
CtxDrawPolygon(vertices) ==
    /\ DrawCall
    /\ DrawPolygon(Nil, vertices, White)
    /\ run' = [run EXCEPT !.calls = run.calls + 1]
    /\ UNCHANGED <<node, ctxVars, callVars, calls, updated, visited, frames, engine, ps, sets, entry>>

NextDraw ==
    \/ \E t \in CtxTransforms : DrawTransform(t)
    \/ \E v \in VertexLists : CtxDrawPolygon(v)

SpecDraw == Init /\ [][NextDraw]_vars

\* C17: DrawPolygon with more vertices than the scratch buffer holds fails
\* with a run-time panic: nothing is issued to the drawing surface, the
\* scratch buffer keeps its size (nothing is written beyond it), and the
\* current transform is unchanged.
OverflowRejected ==
    /\ [][\A v \in VertexLists :
             (CtxDrawPolygon(v) /\ Len(v) > ScratchCount) =>
                /\ panic' = "tPoints: index out of range"
                /\ dc' = dc
                /\ context' = context
                /\ DOMAIN tPoints' = 1 .. ScratchCount]_vars
    /\ [](DOMAIN tPoints = 1 .. ScratchCount)

\* A polygon of ScratchCount + 1 vertices has been handed to DrawPolygon
\* under a transformed context, after a polygon that fitted was drawn
OverflowRejectedWitness ==
    /\ panic = "tPoints: index out of range"
    /\ context = Set(2, 0, 0, 3, 5, 0)
    /\ Len(dc) = 1
    /\ tPoints[ScratchCount] = ApplyToHalves(context, DrawVertices[ScratchCount])

\* C30: DrawPolygon issues to the drawing surface a closed path of exactly
\* len(vertices) points, the i-th being ApplyTo(current, vertices[i]) in input
\* order, for every vertex list of length 0 up to the scratch capacity (an
\* empty list issues no point), and leaves the current transform as it was.
PolygonPath ==
    [][\A v \in VertexLists :
          (CtxDrawPolygon(v) /\ Len(v) <= ScratchCount) =>
              /\ dc' = Append(dc, [node |-> Nil, color |-> White,
                                   path |-> [i \in 1 .. Len(v) |->
                                                ApplyToHalves(context, v[i])]])
              /\ context' = context
              /\ panic' = panic]_vars

-----------------------------------------------------------------------------
(* SpecAlg: a client holding three transforms A, B, C, which it sets,      *)
(* multiplies and inverts                                                  *)

\* Values the client gives its transforms: determinant 1, determinant -1,
\* other determinants, a quarter turn
AlgInputs ==
    UNION {{Set(k + 1, k, 1, 1, k, -1),
            Set(1, 1, k + 1, k, -k, 2),
            Translate(SetToScale(k + 1, k + 2), 1, k)} : k \in 0 .. MaxCoef}
    \cup {Rotate(SetToTranslate(2, 1), 1)}

AlgPoints == (-1 .. 1) \X (-1 .. 1)

algRest == <<node, ctxVars, tPoints, dc, calls, updated, visited, panic, frames, engine, ps, sets, run,
             entry, VectorsPool, ret>>

\* X.Set(...) for one of the client's transforms
AlgSet(x, t) ==
    /\ alg' = [alg EXCEPT ![x] = t, !.op = "none",
                          !.out = NewAffineTransform, !.out2 = NewAffineTransform]
    /\ UNCHANGED algRest

\* out.Multiply(A, B) and AffineTransformMultiply(A, B, out2)
AlgMultiply ==
    /\ alg' = [alg EXCEPT !.op = "Multiply",
                          !.out = Multiply(alg.A, alg.B),
                          !.out2 = AffineTransformMultiply(alg.A, alg.B)]
    /\ UNCHANGED algRest

\* (A.B).C into out and A.(B.C) into out2, with AffineTransformMultiply
AlgAssociate ==
    /\ alg' = [alg EXCEPT !.op = "Associate",
                          !.out = AffineTransformMultiply(AffineTransformMultiply(alg.A, alg.B), alg.C),
                          !.out2 = AffineTransformMultiply(alg.A, AffineTransformMultiply(alg.B, alg.C))]
    /\ UNCHANGED algRest

\* The inverse has integer coefficients
Integral(t) == Determinant(t) \in {-1, 1}

\* i := copy of A; i.Invert(); out.Multiply(A, i); out2.Multiply(i, A)
AlgInvert ==
    /\ Integral(alg.A)
    /\ alg' = [alg EXCEPT !.op = "Invert",
                          !.out = Multiply(alg.A, Invert(alg.A)),
                          !.out2 = Multiply(Invert(alg.A), alg.A)]
    /\ UNCHANGED algRest

\* AffineTransformInvert(A, i); out.Multiply(A, i); out2.Multiply(i, A)
AlgInvertTo ==
    /\ Integral(alg.A)
    /\ alg' = [alg EXCEPT !.op = "AffineTransformInvert",
                          !.out = Multiply(alg.A, AffineTransformInvert(alg.A)),
                          !.out2 = Multiply(AffineTransformInvert(alg.A), alg.A)]
    /\ UNCHANGED algRest

NextAlg ==
    \/ \E x \in {"A", "B", "C"}, t \in AlgInputs : AlgSet(x, t)
    \/ AlgMultiply
    \/ AlgAssociate
    \/ AlgInvert
    \/ AlgInvertTo

SpecAlg == Init /\ [][NextAlg]_vars

\* C18: the product Multiply(t1, t2) maps every point to where t2 maps the
\* point t1 maps it to, and its translation is t1's translation transformed
\* by the linear part of t2 plus t2's translation.
MultiplyOrder ==
    alg.op = "Multiply" =>
        /\ \A p \in AlgPoints : ApplyTo(alg.out, p) = ApplyTo(alg.B, ApplyTo(alg.A, p))
        /\ <<alg.out.tx, alg.out.ty>> = ApplyTo(alg.B, <<alg.A.tx, alg.A.ty>>)

\* Two transforms that do not commute, each with a translation, have been
\* multiplied
MultiplyOrderWitness ==
    /\ alg.op = "Multiply"
    /\ alg.A = Set(2, 1, 1, 1, 1, -1)
    /\ alg.B = Rotate(SetToTranslate(2, 1), 1)
    /\ Multiply(alg.A, alg.B) # Multiply(alg.B, alg.A)

\* C19: (A.B).C and A.(B.C) map every point to the same point.
MultiplyAssociative ==
    alg.op = "Associate" =>
        \A p \in AlgPoints : ApplyTo(alg.out, p) = ApplyTo(alg.out2, p)

\* Three different transforms, no two of which commute, have been multiplied
\* both ways
MultiplyAssociativeWitness ==
    /\ alg.op = "Associate"
    /\ alg.A = Set(2, 1, 1, 1, 1, -1)
    /\ alg.B = Rotate(SetToTranslate(2, 1), 1)
    /\ alg.C = Translate(SetToScale(1, 2), 1, 0)
    /\ alg.out = alg.out2

\* C20: for a transform t whose inverse has integer coefficients (determinant
\* 1 or -1), Multiply(t, Invert(t)) and Multiply(Invert(t), t) are the
\* identity transform, with the method Invert and with AffineTransformInvert.
InvertRoundTrip ==
    alg.op \in {"Invert", "AffineTransformInvert"} =>
        /\ alg.out = Set(1, 0, 0, 1, 0, 0)
        /\ alg.out2 = Set(1, 0, 0, 1, 0, 0)

\* A transform of determinant -1 with a translation has been inverted and
\* multiplied with its inverse
InvertRoundTripWitness ==
    /\ alg.op = "Invert"
    /\ alg.A = Set(1, 1, 2, 1, -1, 2)
    /\ Determinant(alg.A) = -1
    /\ Invert(alg.A) # alg.A

-----------------------------------------------------------------------------
(* SpecOps: a client holding a transform A, which it sets, and on which it *)
(* calls the setting and the concatenating operations and their free       *)
(* function counterparts                                                   *)

\* Angles the client passes, in quarter turns
Quarters == -1 .. 4

\* Offsets, factors and coordinates the client passes
OpsArgs == -1 .. MaxArg

\* The client's fresh temporaries for its next computation on A
OpsFresh ==
    [alg EXCEPT !.op = "none", !.args = <<>>,
                !.B = NewAffineTransform, !.C = NewAffineTransform,
                !.out = NewAffineTransform, !.out2 = NewAffineTransform,
                !.v = NewVector3, !.v2 = NewVector3]

\* A.Set(...)
OpsSet(t) ==
    /\ alg' = [OpsFresh EXCEPT !.A = t]
    /\ UNCHANGED algRest

\* B.SetToRotate(angle); out := identity, out.Rotate(angle);
\* AffineTransformRotate(identity, out2, angle)
OpsRotate(q) ==
    /\ alg' = [OpsFresh EXCEPT !.op = "Rotate", !.args = <<q>>,
                               !.B = SetToRotate(q),
                               !.out = Rotate(NewAffineTransform, q),
                               !.out2 = AffineTransformRotate(NewAffineTransform, q)]
    /\ UNCHANGED algRest

\* B.SetToRotate(angle); B.ApplyToVector((1,0), v); B.ApplyTo((1,0), v2)
OpsSetToRotate(q) ==
    /\ alg' = [OpsFresh EXCEPT !.op = "SetToRotate", !.args = <<q>>,
                               !.B = SetToRotate(q),
                               !.v = ApplyToVector(SetToRotate(q), Set2Components(1, 0)),
                               !.v2 = ApplyTo(SetToRotate(q), Set2Components(1, 0))]
    /\ UNCHANGED algRest

\* B.SetToTranslate(tx, ty); B.ApplyToVector(p, v); B.ApplyTo(p, v2)
OpsSetToTranslate(tx, ty, p) ==
    /\ alg' = [OpsFresh EXCEPT !.op = "SetToTranslate", !.args = <<tx, ty, p[1], p[2]>>,
                               !.B = SetToTranslate(tx, ty),
                               !.v = ApplyToVector(SetToTranslate(tx, ty), p),
                               !.v2 = ApplyTo(SetToTranslate(tx, ty), p)]
    /\ UNCHANGED algRest

\* out := copy of A, out.Translate(x, y); AffineTransformTranslate(A, out2, x, y);
\* B.SetToTranslate(x, y); C.Multiply(B, A)
OpsTranslate(x, y) ==
    /\ alg' = [OpsFresh EXCEPT !.op = "Translate", !.args = <<x, y>>,
                               !.out = Translate(SetWithAT(alg.A), x, y),
                               !.out2 = AffineTransformTranslate(alg.A, x, y),
                               !.B = SetToTranslate(x, y),
                               !.C = Multiply(SetToTranslate(x, y), alg.A)]
    /\ UNCHANGED algRest

\* out := copy of A, out.Scale(sx, sy); AffineTransformScale(A, out2, sx, sy);
\* B.SetToScale(sx, sy); C.Multiply(B, A)
OpsScale(sx, sy) ==
    /\ alg' = [OpsFresh EXCEPT !.op = "Scale", !.args = <<sx, sy>>,
                               !.out = Scale(SetWithAT(alg.A), sx, sy),
                               !.out2 = AffineTransformScale(alg.A, sx, sy),
                               !.B = SetToScale(sx, sy),
                               !.C = Multiply(SetToScale(sx, sy), alg.A)]
    /\ UNCHANGED algRest

NextOps ==
    \/ \E t \in AlgInputs : OpsSet(t)
    \/ \E q \in Quarters : OpsRotate(q)
    \/ \E q \in Quarters : OpsSetToRotate(q)
    \/ \E tx, ty \in OpsArgs, p \in {<<0, 0>>, <<1, -1>>} : OpsSetToTranslate(tx, ty, p)
    \/ \E x, y \in OpsArgs : OpsTranslate(x, y)
    \/ \E sx, sy \in OpsArgs : OpsScale(sx, sy)

SpecOps == Init /\ [][NextOps]_vars

\* C21: for every angle, Rotate(angle) applied to the identity transform and
\* AffineTransformRotate(identity, out, angle) produce the same coefficients
\* as SetToRotate(angle).
RotateConsistent ==
    alg.op = "Rotate" =>
        /\ alg.out = alg.B
        /\ alg.out2 = alg.B

\* C22: a transform built by SetToRotate(angle) maps the point (1,0) to
\* (cos(angle), -sin(angle)); for a quarter turn that is (0,-1).
RotateConvention ==
    alg.op = "SetToRotate" =>
        /\ alg.v = <<Cos(alg.args[1]), -Sin(alg.args[1])>>
        /\ alg.v2 = alg.v
        /\ alg.args[1] = 1 => alg.v = <<0, -1>>

\* A transform set to a quarter turn has been applied to (1,0)
RotateConventionWitness ==
    /\ alg.op = "SetToRotate"
    /\ alg.args = <<1>>
    /\ alg.B = Set(0, -1, 1, 0, 0, 0)
    /\ alg.v = <<0, -1>>

\* C23: a transform set by SetToTranslate(tx, ty) and applied to a point p
\* with ApplyToVector yields p shifted by (tx, ty); SetToTranslate(2, 0)
\* applied to (0,0) gives X = 2.
TranslateVector ==
    alg.op = "SetToTranslate" =>
        alg.v = <<alg.args[3] + alg.args[1], alg.args[4] + alg.args[2]>>

\* C28: M.Translate(x, y) leaves M equal to Multiply(SetToTranslate(x, y), M),
\* M.Scale(sx, sy) leaves M equal to Multiply(SetToScale(sx, sy), M), and
\* AffineTransformTranslate and AffineTransformScale write the same values to
\* their output.
ConcatenateBefore ==
    alg.op \in {"Translate", "Scale"} =>
        /\ alg.out = alg.C
        /\ alg.out2 = alg.out

\* A translation has been concatenated onto a transform whose linear part
\* moves the offset, where acting after the existing matrix differs
ConcatenateBeforeWitness ==
    /\ alg.op = "Translate"
    /\ alg.A = Rotate(SetToTranslate(2, 1), 1)
    /\ alg.args = <<2, 1>>
    /\ alg.out # [alg.A EXCEPT !.tx = alg.A.tx + 2, !.ty = alg.A.ty + 1]
    /\ alg.out # Multiply(alg.A, alg.B)

-----------------------------------------------------------------------------
(* SpecAlias: a client holding transforms A and B, which it sets, and      *)
(* calling each writing operation twice: once with the written object      *)
(* among the operands (into out) and once with every operand a distinct    *)
(* object of the same value (into out2)                                    *)

\* at.Multiply(t1, t2) on the objects of memory m, field by field: at may be
\* t1 or t2, and each assignment reads the fields as the ones before left them
MultiplyInPlace(m, at_, t1, t2) ==
    LET m1 == [m  EXCEPT ![at_].a  = m[t1].a * m[t2].a + m[t1].b * m[t2].c]
        m2 == [m1 EXCEPT ![at_].b  = m1[t1].a * m1[t2].b + m1[t1].b * m1[t2].d]
        m3 == [m2 EXCEPT ![at_].c  = m2[t1].c * m2[t2].a + m2[t1].d * m2[t2].c]
        m4 == [m3 EXCEPT ![at_].d  = m3[t1].c * m3[t2].b + m3[t1].d * m3[t2].d]
        m5 == [m4 EXCEPT ![at_].tx = m4[t1].tx * m4[t2].a + m4[t1].ty * m4[t2].c + m4[t2].tx]
    IN  [m5 EXCEPT ![at_].ty = m5[t1].tx * m5[t2].b + m5[t1].ty * m5[t2].d + m5[t2].ty]

\* at.PreMultiply(t) on the objects of memory m: the receiver's fields are
\* copied first, t's fields are read assignment by assignment
PreMultiplyInPlace(m, at_, t) ==
    LET _a  == m[at_].a
        _b  == m[at_].b
        _c  == m[at_].c
        _d  == m[at_].d
        _tx == m[at_].tx
        _ty == m[at_].ty
        m1 == [m  EXCEPT ![at_].a  = _a * m[t].a + _b * m[t].c]
        m2 == [m1 EXCEPT ![at_].b  = _a * m1[t].b + _b * m1[t].d]
        m3 == [m2 EXCEPT ![at_].c  = _c * m2[t].a + _d * m2[t].c]
        m4 == [m3 EXCEPT ![at_].d  = _c * m3[t].b + _d * m3[t].d]
        m5 == [m4 EXCEPT ![at_].tx = (_tx * m4[t].a) + (_ty * m4[t].c) + m4[t].tx]
    IN  [m5 EXCEPT ![at_].ty = (_tx * m5[t].b) + (_ty * m5[t].d) + m5[t].ty]

\* AffineTransformInvertTo(t, to) on the objects of memory m, field by field
AffineTransformInvertToInPlace(m, t, to) ==
    LET determinant == Reciprocal(Determinant(m[t]))
        m1 == [m  EXCEPT ![to].a  = determinant * m[t].d]
        m2 == [m1 EXCEPT ![to].b  = (-determinant) * m1[t].b]
        m3 == [m2 EXCEPT ![to].c  = (-determinant) * m2[t].c]
        m4 == [m3 EXCEPT ![to].d  = determinant * m3[t].a]
        m5 == [m4 EXCEPT ![to].tx = determinant * (m4[t].c * m4[t].ty - m4[t].d * m4[t].tx)]
    IN  [m5 EXCEPT ![to].ty = determinant * (m5[t].b * m5[t].tx - m5[t].a * m5[t].ty)]

\* AffineTransformMultiplyFrom(tA, tB): the value tA holds afterwards; the six
\* coefficients are computed into locals before tA is written
AffineTransformMultiplyFrom(tA, tB) ==
    Set(tA.a * tB.a + tA.b * tB.c,
        tA.a * tB.b + tA.b * tB.d,
        tA.c * tB.a + tA.d * tB.c,
        tA.c * tB.b + tA.d * tB.d,
        tA.tx * tB.a + tA.ty * tB.c + tB.tx,
        tA.tx * tB.b + tA.ty * tB.d + tB.ty)

\* The writing operations, and which operands the written object stands for
AliasOperations ==
    ({"Multiply", "AffineTransformMultiply"} \X {"t1", "t2", "both"})
    \cup ({"PreMultiply", "AffineTransformMultiplyTo", "AffineTransformMultiplyFrom",
           "Invert", "AffineTransformInvert", "AffineTransformInvertTo"} \X {"t"})

\* The client's objects before a call: A and B as they are, out and out2
\* holding the values x and y
AliasMem(x, y) == [A |-> alg.A, B |-> alg.B, out |-> x, out2 |-> y]

\* The call of f with the object out as output and as the operands p says:
\* what out holds afterwards.  The operations that compute into locals, or
\* into the arguments of Set, read every operand before they write.
Aliased(f, p) ==
    LET x  == IF p = "t2" THEN alg.B ELSE alg.A
        m  == AliasMem(x, NewAffineTransform)
        t1 == IF p = "t2" THEN "A" ELSE "out"
        t2 == IF p = "t1" THEN "B" ELSE "out"
    IN  CASE f = "Multiply"                    -> MultiplyInPlace(m, "out", t1, t2).out
          [] f = "AffineTransformMultiply"     -> AffineTransformMultiply(m[t1], m[t2])
          [] f = "PreMultiply"                 -> PreMultiplyInPlace(m, "out", "out").out
          [] f = "AffineTransformMultiplyTo"   -> AffineTransformMultiplyTo(m.out, m.out)
          [] f = "AffineTransformMultiplyFrom" -> AffineTransformMultiplyFrom(m.out, m.out)
          [] f = "Invert"                      -> Invert(m.out)
          [] f = "AffineTransformInvert"       -> AffineTransformInvert(m.out)
          [] f = "AffineTransformInvertTo"     -> AffineTransformInvertToInPlace(m, "out", "out").out

\* The same call with the operands the distinct objects A and B and the
\* output the object out2: what out2 holds afterwards
Distinct(f, p) ==
    LET m  == AliasMem(NewAffineTransform, alg.A)
        t2 == IF p = "both" THEN "A" ELSE "B"
    IN  CASE f = "Multiply"                    -> MultiplyInPlace(m, "out2", "A", t2).out2
          [] f = "AffineTransformMultiply"     -> AffineTransformMultiply(m.A, m[t2])
          [] f = "PreMultiply"                 -> PreMultiplyInPlace(m, "out2", "A").out2
          [] f = "AffineTransformMultiplyTo"   -> AffineTransformMultiplyTo(m.A, m.out2)
          [] f = "AffineTransformMultiplyFrom" -> AffineTransformMultiplyFrom(m.out2, m.A)
          [] f = "Invert"                      -> AffineTransformInvert(m.A)
          [] f = "AffineTransformInvert"       -> AffineTransformInvert(m.A)
          [] f = "AffineTransformInvertTo"     -> AffineTransformInvertToInPlace(m, "A", "out2").out2

\* The client makes both calls
AliasCall(f, p) ==
    /\ f \in {"Invert", "AffineTransformInvert", "AffineTransformInvertTo"} => Integral(alg.A)
    /\ alg' = [alg EXCEPT !.op = f, !.args = <<p>>,
                          !.out = Aliased(f, p), !.out2 = Distinct(f, p)]
    /\ UNCHANGED algRest

NextAlias ==
    \/ \E x \in {"A", "B"}, t \in AlgInputs : AlgSet(x, t)
    \/ \E c \in AliasOperations : AliasCall(c[1], c[2])

SpecAlias == Init /\ [][NextAlias]_vars

\* C33: every transform operation that writes to a receiver or output
\* parameter produces, when its output is the same object as one of its
\* inputs, the same coefficients as with a distinct fresh output.
AliasSafe ==
    alg.op # "none" => alg.out = alg.out2

-----------------------------------------------------------------------------
(* SpecProp: an application adds one rectangle to the root, calls its      *)
(* setters with the getters before and after each call, and reads its      *)
(* transform                                                               *)

\* Vectors handed to SetPosition, SetPositionBy2Comp and SetScale
PropPositions == {<<0, 0>>, <<5, 0>>, <<3, 4>>}

PropScales == {<<1, 1>>, <<MaxScale, 1>>, <<MaxScale, MaxScale>>}

\* What the three getters of node record nd return
Getters(nd) == [Position |-> Position(nd), Scale |-> NodeScale(nd), Rotation |-> Rotation(nd)]

\* was := getters of n; the setter call, leaving record nd; got := getters of n
PropCall(n, call, arg, nd) ==
    /\ calls = <<>> /\ panic = "none"
    /\ n \in Allocated
    /\ node' = [node EXCEPT ![n] = nd]
    /\ ret' = [call |-> call, n |-> n, arg |-> arg,
               was |-> Getters(node[n]), got |-> Getters(nd)]
    /\ UNCHANGED <<ctxVars, tPoints, VectorsPool, alg, dc, calls, updated, visited, panic,
                   frames, engine, ps, sets, run, entry>>

\* n.SetScaleUniform(s), while the scale stays within MaxScale * MaxScale
PropScaleUniform(n, s) ==
    /\ n \in Allocated
    /\ node[n].scale[1] * s <= MaxScale * MaxScale
    /\ node[n].scale[2] * s <= MaxScale * MaxScale
    /\ PropCall(n, "SetScaleUniform", s, SetScaleUniform(node[n], s))

PropSetter(n) ==
    \/ \E v \in PropPositions : PropCall(n, "SetPosition", v, SetPosition(node[n], v))
    \/ \E v \in PropPositions :
          PropCall(n, "SetPositionBy2Comp", v, SetPositionBy2Comp(node[n], v[1], v[2]))
    \/ \E v \in PropScales : PropCall(n, "SetScale", v, SetScale(node[n], v))
    \/ \E s \in 1 .. MaxScale : PropScaleUniform(n, s)
    \/ \E q \in 0 .. 1 : PropCall(n, "SetRotation", q, SetRotation(node[n], q))

NextProp ==
    \/ Groups = Allocated /\ NewRectangleNode(Root, FALSE, TRUE)
    \/ \E n \in Allocated \ Groups : PropSetter(n)
    \/ \E n \in Allocated \ Groups : ReadTransform(n)

SpecProp == Init /\ [][NextProp]_vars

\* C24: the getters return what the setters stored: after SetScale(v) Scale()
\* returns the components of v, after SetPosition(v) or SetPositionBy2Comp(x, y)
\* Position() returns that position, after SetRotation(r) Rotation() returns
\* r, and the getters of the other two properties return what they returned
\* before the call.
GettersReturn ==
    /\ ret.call = "SetScale" =>
          /\ ret.got.Scale = ret.arg
          /\ ret.got.Position = ret.was.Position
          /\ ret.got.Rotation = ret.was.Rotation
    /\ ret.call \in {"SetPosition", "SetPositionBy2Comp"} =>
          /\ ret.got.Position = ret.arg
          /\ ret.got.Scale = ret.was.Scale
          /\ ret.got.Rotation = ret.was.Rotation
    /\ ret.call = "SetRotation" =>
          /\ ret.got.Rotation = ret.arg
          /\ ret.got.Position = ret.was.Position
          /\ ret.got.Scale = ret.was.Scale

\* C25: SetScaleUniform(s) sets the node's scale to (s, s) whatever the scale
\* was before, so a second call with the same s leaves the same scale, and
\* the next transform read scales local geometry by exactly s on both axes.
UniformScaleSets ==
    ret.call = "SetScaleUniform" =>
        /\ node[ret.n].scale = <<ret.arg, ret.arg>>
        /\ ~node[ret.n].dirty =>
              node[ret.n].transform =
                  Scale(Rotate(Translate(ToIdentity, node[ret.n].position[1],
                                         node[ret.n].position[2]),
                               node[ret.n].rotation),
                        ret.arg, ret.arg)

\* C29: calcTransform on a dirty node yields the identity with
\* Translate(position), then Rotate(rotation), then Scale(scale) concatenated
\* in that order, the same coefficients as when Rotate and Scale are applied
\* unconditionally; and for rotation 0 the result maps a local point (x, y)
\* to (px + sx*x, py + sy*y).
TranslateRotateScale ==
    [][\A n \in Allocated :
          (ReadTransform(n) /\ node[n].dirty) =>
              LET nd == node[n]
                  t  == node'[n].transform
              IN  /\ t = Scale(Rotate(Translate(ToIdentity, nd.position[1], nd.position[2]),
                                      nd.rotation),
                               nd.scale[1], nd.scale[2])
                  /\ nd.rotation = 0 =>
                        \A p \in AlgPoints :
                            ApplyTo(t, p) = <<nd.position[1] + nd.scale[1] * p[1],
                                              nd.position[2] + nd.scale[2] * p[2]>>]_vars

\* The transform of a node with a position, a quarter turn and a non-uniform
\* scale has been read
TranslateRotateScaleWitness ==
    \E n \in Allocated :
        /\ ~node[n].dirty
        /\ node[n].position = <<3, 4>>
        /\ node[n].rotation = 1
        /\ node[n].scale = <<MaxScale, 1>>
        /\ node[n].transform = Set(0, MaxScale, -1, 0, 3, 4)

-----------------------------------------------------------------------------
(* SpecParticles: a game holding a particle system, which triggers          *)
(* particles, updates the system with a positive dt and renders it;        *)
(* SpecParticlesLive: the same game in a frame loop that keeps calling     *)
(* Update                                                                  *)

NextParticles ==
    \/ \E w \in TriggerDraws : TriggerParticle(w)
    \/ \E dt \in 1 .. MaxDt : ParticleSystemUpdate(dt)
    \/ ParticleSystemRender

SpecParticles == Init /\ [][NextParticles]_vars

SpecParticlesLive ==
    /\ Init
    /\ [][NextParticles]_vars
    /\ WF_vars(\E dt \in 1 .. MaxDt : ParticleSystemUpdate(dt))

\* C34: TriggerParticle activates a single particle: if some particle is not
\* alive, the first such particle in index order becomes alive with its
\* accumulated time 0 and its RenderColor its StartColor, the trigger callback
\* is invoked once, for it, and every other particle is unchanged; if all
\* particles are alive nothing changes and the callback is not invoked; the
\* number of alive particles never exceeds the system's particle count.
TriggerActivates ==
    /\ [][(\E w \in TriggerDraws : TriggerParticle(w)) =>
            IF \A i \in DOMAIN ps.particles : ps.particles[i].IsAlive
            THEN /\ ps'.particles = ps.particles
                 /\ ps'.call.passed = <<>>
            ELSE \E k \in DOMAIN ps.particles :
                    /\ ~ps.particles[k].IsAlive
                    /\ \A j \in 1 .. k - 1 : ps.particles[j].IsAlive
                    /\ ps'.particles[k].IsAlive
                    /\ ps'.particles[k].acculTime = 0
                    /\ ps'.particles[k].RenderColor = ps'.particles[k].StartColor
                    /\ ps'.call.passed = <<k>>
                    /\ \A i \in DOMAIN ps.particles \ {k} :
                          ps'.particles[i] = ps.particles[i]]_vars
    /\ [](Cardinality({i \in DOMAIN ps.particles : ps.particles[i].IsAlive}) <= ParticleCount)

\* C35: a triggered particle stays alive while the sum of the dt of its
\* Updates is below its Duration and is marked not alive by the first Update
\* at which the sum reaches Duration; in a loop that keeps calling Update with
\* a positive dt every alive particle eventually is not alive; a particle that
\* is not alive is not passed to Particle.Update, keeps its position, colour
\* and accumulated time through Update, and is not passed to the renderer.
ParticleLifetime ==
    /\ [](\A i \in DOMAIN ps.particles :
            ps.particles[i].IsAlive => ps.age[i] < ps.particles[i].Duration)
    /\ [][\A dt \in 1 .. MaxDt : ParticleSystemUpdate(dt) =>
            \A i \in DOMAIN ps.particles :
                IF ps.particles[i].IsAlive
                THEN /\ ps'.age[i] = ps.age[i] + dt
                     /\ ps'.particles[i].IsAlive <=> (ps'.age[i] < ps.particles[i].Duration)
                ELSE /\ ps'.particles[i] = ps.particles[i]
                     /\ \A k \in DOMAIN ps'.call.passed : ps'.call.passed[k] # i]_vars
    /\ [][ParticleSystemRender =>
            /\ ps'.particles = ps.particles
            /\ \A i \in DOMAIN ps.particles :
                  ~ps.particles[i].IsAlive =>
                      \A k \in DOMAIN ps'.call.passed : ps'.call.passed[k] # i]_vars
    /\ \A i \in 1 .. ParticleCount :
          (ps.particles[i].IsAlive ~> ~ps.particles[i].IsAlive)

\* An Update has just expired one particle, whose Updates sum to its Duration
\* or more, while another particle, updated too, is alive, its sum below its
\* Duration
ParticleLifetimeWitness ==
    /\ ps.call.name = "Update"
    /\ \E i, j \in DOMAIN ps.particles :
          /\ \E k \in DOMAIN ps.call.passed : ps.call.passed[k] = i
          /\ \E k \in DOMAIN ps.call.passed : ps.call.passed[k] = j
          /\ ~ps.particles[i].IsAlive
          /\ ps.age[i] >= ps.particles[i].Duration
          /\ ps.particles[j].IsAlive
          /\ ps.age[j] > 0
          /\ ps.age[j] < ps.particles[j].Duration

-----------------------------------------------------------------------------
(* SpecGraph: an application builds nodes with and without auto-add, calls *)
(* Add and Remove on any container with any node, and the frame driver     *)
(* walks what it has built                                                 *)

\* A constructor, Add or Remove call of the application, before the walks
GraphCall == Building /\ calls = <<>> /\ panic = "none" /\ Ops < MaxOps

graphVars == <<ctxVars, tPoints, callVars, dc, calls, updated, visited, panic, frames, engine, ps,
               run, entry>>

\* g.Add(n)
GraphAdd(g, n) ==
    /\ GraphCall
    /\ sets' = sets + 1
    /\ node' = [node EXCEPT ![g].nodes = Add(g, n)]
    /\ UNCHANGED graphVars

\* g.Remove(n)
GraphRemove(g, n) ==
    /\ GraphCall
    /\ sets' = sets + 1
    /\ node' = [node EXCEPT ![g].nodes = Remove(g, n)]
    /\ UNCHANGED graphVars

\* A step of the walk in progress, while its recursion is within the stack
GraphStep ==
    /\ Len(calls) < MaxDepth
    /\ (UpdateStep \/ RenderStep)

\* The recursion has used up the stack: the run-time ends the program
StackOverflow ==
    /\ calls # <<>> /\ panic = "none"
    /\ Len(calls) >= MaxDepth
    /\ panic' = "stack overflow"
    /\ UNCHANGED <<node, ctxVars, tPoints, callVars, dc, calls, updated, visited, frames, engine, ps,
                   sets, run, entry>>

NextGraph ==
    \/ \E p \in Groups, a \in BOOLEAN : GraphCall /\ NewGroupNode(p, a)
    \/ \E p \in Groups, a \in BOOLEAN : GraphCall /\ NewRectangleNode(p, FALSE, a)
    \/ \E g \in Groups, n \in Allocated : GraphAdd(g, n)
    \/ \E g \in Groups, n \in Allocated : GraphRemove(g, n)
    \/ RunUpdate
    \/ RunRender
    \/ GraphStep
    \/ StackOverflow

SpecGraph == Init /\ [][NextGraph]_vars

\* C31: Update and Render terminate on every hierarchy reachable through node
\* construction, Add and Remove: no walk re-enters a node that is still on its
\* call stack (from where it would repeat itself without end), and none
\* recurses until the stack is used up.
WalksTerminate ==
    /\ panic # "stack overflow"
    /\ \A i, j \in DOMAIN calls : i < j => calls[i].n # calls[j].n

\* C32: after any sequence of construction, Add and Remove operations, a node
\* occurs in the child sequence of container C only if its parent
\* back-reference is C, and each node occurs at most once over all child
\* sequences.
ParentOwns ==
    /\ \A g \in Groups : \A k \in DOMAIN node[g].nodes :
          node[node[g].nodes[k]].parent = g
    /\ \A g, h \in Groups : \A k \in DOMAIN node[g].nodes, l \in DOMAIN node[h].nodes :
          node[g].nodes[k] = node[h].nodes[l] => (g = h /\ k = l)

-----------------------------------------------------------------------------
(* SpecRun: an application puts nodes under the root and starts the        *)
(* engine; the frame loop walks the tree while events arrive and the       *)
(* application's callbacks turn nodes and call Quit                        *)

\* newGame's build runs before Start, and no more than MaxOps calls of it
RunBuilding == At("idle") /\ Ops < MaxOps

\* aGame.Update turning the node built last: n.SetRotationByDegree(angle)
RunGameSet(n) ==
    /\ At("game.Update")
    /\ sets < MaxSets
    /\ sets' = sets + 1
    /\ Mutate(n, SetRotationByDegree(node[n], 90))

NextRun ==
    \/ RunBuilding /\ NewGroupNode(Root, TRUE)
    \/ RunBuilding /\ NewRectangleNode(Root, FALSE, TRUE)
    \/ Run
    \/ RunLoop
    \/ RunPumpNone
    \/ \E e \in Events : RunPumpEvents(e)
    \/ RunRootUpdate
    \/ RunGameSet(Len(node))
    \/ RunGameUpdate
    \/ RunRootRender
    \/ RunGameRender
    \/ Quit
    \/ UpdateStep
    \/ RenderStep

SpecRun == Init /\ [][NextRun]_vars

-----------------------------------------------------------------------------
(* Properties of the walks *)

Range(s) == {s[i] : i \in DOMAIN s}

Rendering == calls # <<>> /\ calls[1].op = "Render"

Updating == calls # <<>> /\ calls[1].op = "Update"

\* Render calls in progress that are between their Save and their Restore
Saved == {k \in DOMAIN calls : calls[k].op = "Render" /\ calls[k].pc \in {"transform", "body", "restore"}}

\* C2: during a Render every pool instance is in exactly one place, the pool
\* or the stack, and the stack holds one saved transform per Render call that
\* is between its Save and its Restore; when root.Render has returned, the
\* current transform, the depth of the stack and the instances in the pool
\* are what they were when it was called.
RenderBalanced ==
    panic = "none" =>
        /\ Range(AffinePool) \cup Range(contextState) = Instances
        /\ Len(AffinePool) + Len(contextState) = AffinePoolCount
        /\ dcDepth = Len(contextState)
        /\ Len(contextState) = entry.depth + Cardinality(Saved)
        /\ calls = <<>> =>
              /\ context = entry.context
              /\ Len(contextState) = entry.depth
              /\ dcDepth = entry.dcDepth
              /\ Range(AffinePool) = entry.pool
              /\ Len(AffinePool) = entry.free

\* A Render has returned that drew a node two levels below the root inside
\* a transformed container, and left the pool in another order
RenderBalancedWitness ==
    /\ calls = <<>> /\ panic = "none" /\ frames >= 2
    /\ AffinePool # NewAffineTransformPool(AffinePoolCount)
    /\ \E k \in DOMAIN dc :
          /\ node[dc[k].node].parent # Root
          /\ node[node[dc[k].node].parent].transform # NewAffineTransform

\* The sum of the positions on the path from node n up to the root
RECURSIVE PathSum(_)
PathSum(n) ==
    IF node[n].parent = Nil
    THEN node[n].position
    ELSE <<node[n].position[1] + PathSum(node[n].parent)[1],
           node[n].position[2] + PathSum(node[n].parent)[2]>>

\* C3: in a chain of purely translated containers, every vertex of the leaf
\* is drawn at its local value shifted by the sum of the positions on the
\* path from the root to the leaf; the local origin is drawn at that sum.
ChainTranslation ==
    Rendering =>
        \A k \in DOMAIN dc :
            LET n == dc[k].node
                s == Halves(PathSum(n))
            IN  /\ Len(dc[k].path) = Len(node[n].vertices)
                /\ \A i \in DOMAIN dc[k].path :
                      dc[k].path[i] = <<s[1] + node[n].vertices[i][1],
                                        s[2] + node[n].vertices[i][2]>>
                /\ ~node[n].centered => dc[k].path[1] = s

\* The leaf at (5,0) in a container at (10,0) in a container at (20,0) in
\* the untransformed root has its origin drawn at (35,0)
ChainTranslationWitness ==
    /\ Rendering
    /\ Len(node) = 4
    /\ node[1].position = <<0, 0>> /\ node[2].position = <<20, 0>>
    /\ node[3].position = <<10, 0>> /\ node[4].position = <<5, 0>>
    /\ node[4].kind = "rect" /\ ~node[4].centered
    /\ \E k \in DOMAIN dc : dc[k].node = 4 /\ dc[k].path[1] = Halves(<<35, 0>>)

\* Local vertex h (in halves) of node n carried through n's transform, then
\* its parent's, and so on up to the root's
RECURSIVE World(_, _)
World(n, h) ==
    IF node[n].parent = Nil
    THEN ApplyToHalves(node[n].transform, h)
    ELSE World(node[n].parent, ApplyToHalves(node[n].transform, h))

\* C4: every vertex is drawn where the leaf's own transform, then its
\* parent's, ..., then the root's take it (and last the transform current
\* when the Render began); the transform handed to Transform is unchanged.
CompositionOrder ==
    Rendering =>
        /\ \A k \in DOMAIN dc :
              /\ Len(dc[k].path) = Len(node[dc[k].node].vertices)
              /\ \A i \in DOMAIN dc[k].path :
                    dc[k].path[i] =
                       ApplyToHalves(entry.context,
                                     World(dc[k].node, node[dc[k].node].vertices[i]))
        /\ \A k \in Saved :
              calls[k].pc # "transform" =>
                 /\ ~node[calls[k].n].dirty
                 /\ node[calls[k].n].transform = LocalTransform(node[calls[k].n])

\* A child translated by (5,0) under a parent scaled by 2 has its origin drawn at (10,0)
CompositionOrderWitness ==
    /\ Rendering
    /\ \E k \in DOMAIN dc :
          LET n == dc[k].node IN
          /\ node[n].position = <<5, 0>> /\ node[n].scale = <<1, 1>> /\ node[n].rotation = 0
          /\ node[n].parent = Root
          /\ node[Root].scale = <<2, 2>> /\ node[Root].position = <<0, 0>>
          /\ node[Root].rotation = 0
          /\ dc[k].path[1] = Halves(<<10, 0>>)

\* The elements of sequence s that are in set S, in the order of s
RECURSIVE Keep(_, _)
Keep(s, S) ==
    IF s = <<>> THEN <<>>
    ELSE IF Head(s) \in S THEN <<Head(s)>> \o Keep(Tail(s), S)
    ELSE Keep(Tail(s), S)

\* The nodes drawn so far in the current Render, in the order of their draws
Drawn == [k \in DOMAIN dc |-> dc[k].node]

\* Render calls of containers whose loop over the children has finished
Looped == {k \in DOMAIN calls : /\ calls[k].op = "Render"
                                /\ calls[k].pc = "restore"
                                /\ node[calls[k].n].kind = "group"}

DrawIndex(c) == IF c \in Range(Drawn) THEN CHOOSE k \in DOMAIN Drawn : Drawn[k] = c ELSE 0

\* C9: among the drawn children of a container the one added last is drawn
\* before every sibling that was added earlier (it is rendered underneath).
LastAddedUnderneath ==
    \A k \in Looped :
        LET g == node[calls[k].n]
            drawn == Keep(g.nodes, Range(Drawn))
        IN  Len(drawn) >= 2 =>
               \A i \in 1 .. Len(drawn) - 1 :
                   DrawIndex(drawn[Len(drawn)]) < DrawIndex(drawn[i])

\* The order in which the Update walk is to visit the subtree of n
RECURSIVE Preorder(_), Forest(_)
Forest(s) == IF s = <<>> THEN <<>> ELSE Preorder(Head(s)) \o Forest(Tail(s))
Preorder(n) == <<n>> \o Forest(node[n].nodes)

IsPrefix(s, t) == Len(s) <= Len(t) /\ SubSeq(t, 1, Len(s)) = s

\* The outermost Update has finished its loop and is about to return
UpdateDone ==
    /\ Updating /\ Len(calls) = 1
    /\ calls[1].pc = "children" /\ calls[1].i > Len(node[calls[1].n].nodes)

\* C10: the Update walk visits the nodes in pre-order, depth first, children
\* in insertion order: what it has visited so far is a prefix of that order,
\* and all of it, each node once, when root.Update is about to return.
UpdatePreorder ==
    Updating =>
        /\ IsPrefix(updated, Preorder(calls[1].n))
        /\ UpdateDone => updated = Preorder(calls[1].n)

\* A finished walk over root [ group 2 [ rect 4 ], rect 3 ]: 1, 2, 4, 3
UpdatePreorderWitness ==
    /\ UpdateDone
    /\ node[Root].nodes = <<2, 3>> /\ node[2].nodes = <<4>>
    /\ updated = <<1, 2, 4, 3>>

\* n or one of its ancestors is invisible
RECURSIVE Hidden(_)
Hidden(n) == IF n = Nil THEN FALSE ELSE ~node[n].visible \/ Hidden(node[n].parent)

\* C14: the Render call of an invisible node returns at once and changes
\* nothing: no Save, Transform, Restore or draw, the current transform, the
\* stack, the pool and every node (its dirty flag too) as before; and no
\* node below an invisible container is visited or drawn.
InvisibleSkipped ==
    /\ [][(RenderCheck /\ ~node[Top.n].visible) =>
             /\ calls' = Return
             /\ node' = node
             /\ ctxVars' = ctxVars
             /\ tPoints' = tPoints
             /\ dc' = dc
             /\ visited' = visited
             /\ panic' = panic]_vars
    /\ [](/\ \A k \in DOMAIN visited : ~Hidden(visited[k])
          /\ \A k \in DOMAIN dc : ~Hidden(dc[k].node)
          /\ \A k \in DOMAIN calls :
                calls[k].op = "Render" => ~Hidden(node[calls[k].n].parent))

\* root.Render has returned: it drew the rectangle under the root and not the
\* visible, dirty rectangle under the invisible container
InvisibleSkippedWitness ==
    /\ calls = <<>> /\ panic = "none" /\ frames = 2
    /\ \E g \in Groups, hid, seen \in Allocated \ Groups :
          /\ node[Root].nodes = <<g, seen>>
          /\ node[g].nodes = <<hid>>
          /\ ~node[g].visible /\ node[g].dirty
          /\ node[hid].visible /\ node[hid].dirty
          /\ Drawn = <<seen>>
          /\ visited = <<Root, seen>>

-----------------------------------------------------------------------------
(* Properties of the frame loop *)

\* C26: in every iteration of the frame loop the root's Update is called
\* exactly once and completes before the root's Render is called exactly
\* once: Render is called only when this iteration's Update walk has returned
\* having visited the whole tree, Update only when the previous iteration's
\* Render walk has returned, and an iteration ends with one call of each.
FrameOrder ==
    /\ [][/\ engine'.renders # engine.renders =>
                /\ calls = <<>>
                /\ updated = Preorder(Root)
                /\ engine.updates = engine.frame
                /\ engine'.renders = engine.frame
          /\ engine'.updates # engine.updates =>
                /\ calls = <<>>
                /\ engine.frame > 1 => visited = Preorder(Root)
                /\ engine.renders = engine.frame - 1
                /\ engine'.updates = engine.frame]_vars
    /\ [](/\ engine.renders <= engine.updates
          /\ engine.updates <= engine.frame
          /\ engine.frame <= engine.renders + 1
          /\ engine.pc \in {"loop", "returned"} =>
                engine.updates = engine.frame /\ engine.renders = engine.frame)

\* The second iteration has rendered a root with two children and is back at
\* the loop's test
FrameOrderWitness ==
    /\ At("loop")
    /\ engine.frame = 2 /\ engine.updates = 2 /\ engine.renders = 2
    /\ Len(node[Root].nodes) = 2
    /\ visited = Preorder(Root)

\* C27: after Quit() is called, or a quit event or an Escape key press is
\* filtered, at any point, the frame in progress (if any) still runs its
\* Update and Render to completion, no frame is started afterwards, and Run
\* returns only from the loop's test with every frame complete.
QuitStops ==
    /\ engine.quitAt # -1 => engine.frame <= engine.quitAt
    /\ engine.pc = "returned" =>
          /\ ~engine.running
          /\ engine.updates = engine.frame
          /\ engine.renders = engine.frame

=============================================================================
